---- MODULE Spec2Model ----
(***************************************************************************)
(* Randomization engine of the compressibility study scheduler              *)
(* (src/src/lib/randomization.ts, second definition block, lines 560-1140). *)
(*                                                                          *)
(* A 32-bit word is the pair <<hi, lo>> of its 16-bit halves, so that no    *)
(* intermediate value leaves the range of the checker's integers.           *)
(***************************************************************************)
EXTENDS Integers, Sequences, FiniteSets, TLC

\* ------------------------------------------------------------ bounds
\* Longest participant list the schedule model builds (generate, add).
MaxParticipants == 3
\* Number of seeds sampled from 0..999999 for the assignment of one participant.
MaxSeedSamples == 120
\* Largest record id passed to generateParticipantRandomization on its own.
MaxRecordId == 2
\* Number of times the same assignment call is repeated in one process.
MaxCalls == 2
\* Longest input of shuffleArray taken on its own.
MaxLen == 3
\* Number of clock readings at which the exported schedules were generated.
MaxClockSamples == 20
\* Number of persistence calls made one after the other.
MaxPersistCalls == 2

\* Participants of a schedule on the page
MaxPageParticipants == 2

\* Presses of the buttons Add, Remove and Regenerate on one schedule
MaxUiSteps == 3
\* Calls made of one random stream
MaxDraws == 6

\* ------------------------------------------------------------ state
\* data:   the schedule the caller holds (Null before the first generation)
\* lastOp: the schedule call made last: its name, arguments and the
\*         participant count before it
\* call:   one caller of generateParticipantRandomization on its own: its
\*         arguments, the participant returned last and the number of calls
\*         the process has made
\* sh:     one run of shuffleArray, statement by statement: the caller's
\*         array, the array `shuffled` refers to, the loop index, the random
\*         source and the value returned
\* rows:   one call of flattenForExcel, pass by pass of its outer loop: the
\*         rows pushed, the counter, the participant next (Null before it)
\* store:  the two stores of the persistence layer: the remote document, the
\*         string under STORAGE_KEY in the local store, and the remote writes
\*         still in flight after their caller gave up
\* io:     the persistence call made last and how it ended
\* page:   the state of the Home component and of its form
VARIABLES data, lastOp, call, sh, rows, store, io, page

vars == <<data, lastOp, call, sh, rows, store, io, page>>

\* null, and the value of a variable a specification does not use
Null == [none |-> TRUE]

\* ------------------------------------------------------------ 32-bit words
Half == 65536

Word(n) == <<(n \div Half) % Half, n % Half>>

RECURSIVE BitXor(_, _)
BitXor(a, b) ==
    IF a = 0 THEN b
    ELSE IF b = 0 THEN a
    ELSE ((a + b) % 2) + 2 * BitXor(a \div 2, b \div 2)

RECURSIVE BitOr(_, _)
BitOr(a, b) ==
    IF a = 0 THEN b
    ELSE IF b = 0 THEN a
    ELSE (IF a % 2 = 1 \/ b % 2 = 1 THEN 1 ELSE 0) + 2 * BitOr(a \div 2, b \div 2)

\* 2^k for 0 <= k <= 16
RECURSIVE Pow2Rec(_)
Pow2Rec(k) == IF k = 0 THEN 1 ELSE 2 * Pow2Rec(k - 1)

Pow2Tab == [k \in 0..16 |-> Pow2Rec(k)]

Pow2(k) == Pow2Tab[k]

\* XOR of two 4-bit digits, tabulated; XOR of 16-bit halves digit by digit
XorNib == [a \in 0..15 |-> [b \in 0..15 |-> BitXor(a, b)]]

Xor16(a, b) ==
    XorNib[a % 16][b % 16]
    + 16 * XorNib[(a \div 16) % 16][(b \div 16) % 16]
    + 256 * XorNib[(a \div 256) % 16][(b \div 256) % 16]
    + 4096 * XorNib[a \div 4096][b \div 4096]

\* a ^ b
Xor32(a, b) == <<Xor16(a[1], b[1]), Xor16(a[2], b[2])>>

\* a | c for a constant c < 64: only the low 6 bits of a are touched
OrSmall(a, c) == <<a[1], a[2] - (a[2] % 64) + BitOr(a[2] % 64, c)>>

\* a >>> k for 0 < k < 16
Shr32(a, k) ==
    <<a[1] \div Pow2(k), (a[1] % Pow2(k)) * Pow2(16 - k) + a[2] \div Pow2(k)>>

\* (a + b) mod 2^32
Add32(a, b) ==
    LET lo == a[2] + b[2]
    IN  <<(a[1] + b[1] + lo \div Half) % Half, lo % Half>>

\* (x * y) mod 2^16 for 16-bit x, y, through 8-bit limbs of x
MulLow16(x, y) == ((x % 256) * y + (((x \div 256) * y) % 256) * 256) % Half

\* Math.imul(a, b): the low 32 bits of the product
Imul(a, b) ==
    LET p0 == (a[2] % 256) * b[2]       \* < 2^24
        p1 == (a[2] \div 256) * b[2]    \* < 2^24, weighs 2^8
        lo == (p0 % Half) + (p1 % 256) * 256
        carry == (p0 \div Half) + (p1 \div 256) + (lo \div Half)
        cross == MulLow16(a[1], b[2]) + MulLow16(a[2], b[1])
    IN  <<(cross + carry) % Half, lo % Half>>

\* Variant: Math.round(random() * n), which is floor((floor(2 * u * n / 2^32) + 1) / 2)
Scale_rounded(u, n) ==
    (u[1] * ((2 * n) \div Half)
       + ((u[1] * ((2 * n) % Half) + u[2] * ((2 * n) \div Half)
             + (u[2] * ((2 * n) % Half)) \div Half) \div Half) + 1) \div 2

\* floor(u * n / 2^32) for a word u and 0 < n <= 2^20 with (n mod 2^16) < 2^15:
\* Math.floor(random() * n) where random() = u / 2^32
Scale(u, n) ==
    LET nh == n \div Half
        nl == n % Half
    IN  u[1] * nh + ((u[1] * nl + u[2] * nh + (u[2] * nl) \div Half) \div Half)

\* ------------------------------------------------------------ createSeededRandom
\* Each step of a function body is an operator that receives the values
\* computed so far, in the order of the source's statements.
GOLDEN == <<27947, 31221>>   \* 0x6D2B79F5

\* return ((t ^ t >>> 14) >>> 0) / 4294967296, as the word u of u / 2^32
MulberryReturn(seed, t) == [seed |-> seed, u |-> Xor32(t, Shr32(t, 14))]

\* t ^= t + Math.imul(t ^ t >>> 7, t | 61)
MulberryMix2(seed, t) ==
    MulberryReturn(seed,
        Xor32(t, Add32(t, Imul(Xor32(t, Shr32(t, 7)), OrSmall(t, 61)))))

\* t = Math.imul(t ^ t >>> 15, t | 1)
MulberryMix1(seed) ==
    MulberryMix2(seed, Imul(Xor32(seed, Shr32(seed, 15)), OrSmall(seed, 1)))

\* Variant: the state mixed is the one before the increment, let t = seed
\* and then seed += 0x6D2B79F5
Mulberry_postIncrement(seed) ==
    [MulberryMix1(seed) EXCEPT !.seed = Add32(seed, GOLDEN)]

\* One call of the closure: let t = seed += 0x6D2B79F5, then the mixing.
\* Gives the state after the call and the word returned.
Mulberry(seed) == MulberryMix1(Add32(seed, GOLDEN))

\* ------------------------------------------------------------ random sources
\* A random source `() => number` is its hidden state: a Mulberry32 state word
\* for createSeededRandom, or the remaining outputs of an arbitrary source.
\* n counts the calls made so far.
ScriptedRandom(words) == [kind |-> "script", rest |-> words, n |-> 0]

createSeededRandom(seed) == [kind |-> "seeded", seed |-> Word(seed), n |-> 0]

SeededDraw(random, m) ==
    [u |-> m.u, next |-> [random EXCEPT !.seed = m.seed, !.n = @ + 1]]

\* One call random(): the word u of the value u / 2^32 and the source afterwards.
Draw(random) ==
    IF random.kind = "seeded"
    THEN SeededDraw(random, Mulberry(random.seed))
    ELSE [u |-> Head(random.rest),
          next |-> [random EXCEPT !.rest = Tail(@), !.n = @ + 1]]

\* ------------------------------------------------------------ shuffleArray
\* [shuffled[i], shuffled[j]] = [shuffled[j], shuffled[i]] with 0-based i, j
\* Variant: the assignment without the exchange, shuffled[i] = shuffled[j]
Swap_overwrite(shuffled, i, j) ==
    [shuffled EXCEPT ![i + 1] = shuffled[j + 1]]

Swap(shuffled, i, j) ==
    [shuffled EXCEPT ![i + 1] = shuffled[j + 1], ![j + 1] = shuffled[i + 1]]

RECURSIVE ShuffleLoop(_, _, _)
RECURSIVE ShuffleStep(_, _, _)

\* for (let i = shuffled.length - 1; i > 0; i--)
ShuffleLoop(shuffled, i, random) ==
    IF i > 0
    THEN ShuffleStep(shuffled, i, Draw(random))
    ELSE [shuffled |-> shuffled, random |-> random]

\* the loop body, d being the call random(): j = Math.floor(random() * (i + 1))
ShuffleStep(shuffled, i, d) ==
    ShuffleLoop(Swap(shuffled, i, Scale(d.u, i + 1)), i - 1, d.next)

\* The permutation returned and the random source after the call.
shuffleArray(array, random) == ShuffleLoop(array, Len(array) - 1, random)

\* ------------------------------------------------------------ pressures
RandomIntOf(min, max, d) ==
    [value |-> Scale(d.u, max - min + 1) + min, random |-> d.next]

randomInt(min, max, random) == RandomIntOf(min, max, Draw(random))

MIN_SEPARATION == 10
maxAttempts == 1000

Abs(v) == IF v < 0 THEN -v ELSE v

\* Variant: the candidate is compared with the pressure accepted last only
isFarEnough_lastOnly(pressures, candidate) ==
    pressures = <<>> \/ Abs(candidate - pressures[Len(pressures)]) >= MIN_SEPARATION

isFarEnough(pressures, candidate) ==
    \A k \in 1..Len(pressures) : Abs(candidate - pressures[k]) >= MIN_SEPARATION

RECURSIVE PressureLoop(_, _, _)
RECURSIVE PressureStep(_, _, _)

\* while (pressures.length < 4 && attempts < maxAttempts)
PressureLoop(pressures, attempts, random) ==
    IF Len(pressures) < 4 /\ attempts < maxAttempts
    THEN PressureStep(pressures, attempts, randomInt(1, 100, random))
    ELSE [pressures |-> pressures, random |-> random]

\* the loop body, c being the candidate drawn
PressureStep(pressures, attempts, c) ==
    PressureLoop(IF isFarEnough(pressures, c.value)
                 THEN Append(pressures, c.value) ELSE pressures,
                 attempts + 1, c.random)

FallbackPressures(f) == [pressures |-> f.shuffled, random |-> f.random]

PressuresAfterLoop(r) ==
    IF Len(r.pressures) < 4
    THEN FallbackPressures(shuffleArray(<<10, 35, 60, 85>>, r.random))
    ELSE r

generateUniquePressures(random) == PressuresAfterLoop(PressureLoop(<<>>, 0, random))

\* ------------------------------------------------------------ measurements
BALL_SPHERES ==
    << [id |-> "S1", name |-> "Sphere 1"], [id |-> "S2", name |-> "Sphere 2"],
       [id |-> "S3", name |-> "Sphere 3"], [id |-> "S4", name |-> "Sphere 4"] >>

REPETITIONS == 5

\* The inner loop of one repetition: position o takes the model at 0-based
\* index pick[o] of modelIds and modelNames.
\* Variant: modelOrder taken from the index picked, idx + 1, not from order + 1
CycleOf_orderFromIndex(rep, modelIds, modelNames, pick) ==
    [o \in 1..Len(pick) |->
        [repetition |-> rep, modelOrder |-> pick[o] + 1,
         modelId |-> modelIds[pick[o] + 1], modelName |-> modelNames[pick[o] + 1]]]

\* Variant: the name is read at the position, modelNames[order], not at the
\* index picked
CycleOf_nameByPosition(rep, modelIds, modelNames, pick) ==
    [o \in 1..Len(pick) |->
        [repetition |-> rep, modelOrder |-> o,
         modelId |-> modelIds[pick[o] + 1], modelName |-> modelNames[o]]]

CycleOf(rep, modelIds, modelNames, pick) ==
    [o \in 1..Len(pick) |->
        [repetition |-> rep, modelOrder |-> o,
         modelId |-> modelIds[pick[o] + 1], modelName |-> modelNames[pick[o] + 1]]]

\* Array.from({length}, (_, i) => i); also the positions order = 0..length-1
\* the fixed-order loop walks through
Indices(length) == [i \in 1..length |-> i - 1]

RECURSIVE CycleLoop(_, _, _, _)
CycleLoop(rep, modelIds, modelNames, repetitions) ==
    IF rep <= repetitions
    THEN CycleOf(rep, modelIds, modelNames, Indices(Len(modelIds)))
             \o CycleLoop(rep + 1, modelIds, modelNames, repetitions)
    ELSE <<>>

generateCycleMeasurements(modelIds, modelNames) ==
    CycleLoop(1, modelIds, modelNames, REPETITIONS)

PushCycle(cycle, rest) ==
    [measurements |-> cycle \o rest.measurements, random |-> rest.random]

RECURSIVE RandomizedCycleLoop(_, _, _, _, _)
RECURSIVE RandomizedCycleStep(_, _, _, _, _)

RandomizedCycleLoop(rep, modelIds, modelNames, random, repetitions) ==
    IF rep <= repetitions
    THEN RandomizedCycleStep(rep, modelIds, modelNames,
                             shuffleArray(Indices(Len(modelIds)), random), repetitions)
    ELSE [measurements |-> <<>>, random |-> random]

\* the loop body, perm being shuffleArray(indices, random)
RandomizedCycleStep(rep, modelIds, modelNames, perm, repetitions) ==
    PushCycle(CycleOf(rep, modelIds, modelNames, perm.shuffled),
              RandomizedCycleLoop(rep + 1, modelIds, modelNames, perm.random, repetitions))

\* The measurements and the random source after the call.
generateRandomizedCycleMeasurements(modelIds, modelNames, random) ==
    RandomizedCycleLoop(1, modelIds, modelNames, random, REPETITIONS)

\* ------------------------------------------------------------ generateSession
IdOf(p) == p.id
PressureName(p) == ToString(p.pressure) \o " mmHg"
NameOf(m) == m.name

\* xs.map(p => p.id), xs.map(p => `${p.pressure} mmHg`), xs.map(m => m.name)
MapId(xs) == [k \in 1..Len(xs) |-> IdOf(xs[k])]
MapPressureName(xs) == [k \in 1..Len(xs) |-> PressureName(xs[k])]
MapName(xs) == [k \in 1..Len(xs) |-> NameOf(xs[k])]

SphereById(sphereId) ==
    CHOOSE s \in {BALL_SPHERES[k] : k \in 1..Len(BALL_SPHERES)} : s.id = sphereId

ballModelsOf(ballSphereOrder) ==
    [idx \in 1..Len(ballSphereOrder) |->
        [id |-> ballSphereOrder[idx],
         name |-> SphereById(ballSphereOrder[idx]).name,
         order |-> idx]]

\* isPalpation ? generateRandomizedCycleMeasurements(...) : generateCycleMeasurements(...)
\* Variant: every modality takes the randomized branch
MeasurementsFor_alwaysRandomized(isPalpation, modelIds, modelNames, random) ==
    generateRandomizedCycleMeasurements(modelIds, modelNames, random)

MeasurementsFor(isPalpation, modelIds, modelNames, random) ==
    IF isPalpation
    THEN generateRandomizedCycleMeasurements(modelIds, modelNames, random)
    ELSE [measurements |-> generateCycleMeasurements(modelIds, modelNames),
          random |-> random]

\* Variant: the order of a model-type block is read at the index of the modality
ModalityPush_perModality(i, modality, modelTypeOrder, ballModels, balloonPoints, ballMeasurements, balloonR) ==
    [block |->
        [modality |-> modality,
         order |-> i + 1,
         ballBlock |->
            [modelType |-> "ball",
             order |-> IF modelTypeOrder[i + 1] = "ball" THEN 1 ELSE 2,
             models |-> ballModels,
             measurements |-> ballMeasurements],
         balloonBlock |->
            [modelType |-> "balloon",
             order |-> IF modelTypeOrder[i + 1] = "balloon" THEN 1 ELSE 2,
             models |-> balloonPoints,
             measurements |-> balloonR.measurements]],
     random |-> balloonR.random]

\* modalities.push({modality, order: i + 1, ballBlock, balloonBlock})
ModalityPush(i, modality, modelTypeOrder, ballModels, balloonPoints, ballMeasurements, balloonR) ==
    [block |->
        [modality |-> modality,
         order |-> i + 1,
         ballBlock |->
            [modelType |-> "ball",
             order |-> IF modelTypeOrder[1] = "ball" THEN 1 ELSE 2,
             models |-> ballModels,
             measurements |-> ballMeasurements],
         balloonBlock |->
            [modelType |-> "balloon",
             order |-> IF modelTypeOrder[1] = "balloon" THEN 1 ELSE 2,
             models |-> balloonPoints,
             measurements |-> balloonR.measurements]],
     random |-> balloonR.random]

\* ballR holds ballMeasurements; the balloon measurements are made next
ModalityBalloon(i, modality, modelTypeOrder, ballModels, balloonPoints, ballR) ==
    ModalityPush(i, modality, modelTypeOrder, ballModels, balloonPoints,
                 ballR.measurements,
                 MeasurementsFor(modality = "palpation",
                                 MapId(balloonPoints),
                                 MapPressureName(balloonPoints),
                                 ballR.random))

ModalityBall(i, modality, modelTypeOrder, ballSphereOrder, ballModels, balloonPoints, random) ==
    ModalityBalloon(i, modality, modelTypeOrder, ballModels, balloonPoints,
                    MeasurementsFor(modality = "palpation", ballSphereOrder,
                                    MapName(ballModels), random))

\* One pass of the loop over modalityOrder (0-based i): the block pushed and
\* the random source afterwards.
ModalityBlockOf(i, modalityOrder, modelTypeOrder, ballSphereOrder, balloonPoints, random) ==
    ModalityBall(i, modalityOrder[i + 1], modelTypeOrder, ballSphereOrder,
                 ballModelsOf(ballSphereOrder), balloonPoints, random)

PushModality(b, rest) ==
    [modalities |-> <<b>> \o rest.modalities, random |-> rest.random]

RECURSIVE ModalityLoop(_, _, _, _, _, _)
RECURSIVE ModalityStep(_, _, _, _, _, _)

\* for (let i = 0; i < modalityOrder.length; i++)
ModalityLoop(i, modalityOrder, modelTypeOrder, ballSphereOrder, balloonPoints, random) ==
    IF i < Len(modalityOrder)
    THEN ModalityStep(i, modalityOrder, modelTypeOrder, ballSphereOrder, balloonPoints,
                      ModalityBlockOf(i, modalityOrder, modelTypeOrder,
                                      ballSphereOrder, balloonPoints, random))
    ELSE [modalities |-> <<>>, random |-> random]

ModalityStep(i, modalityOrder, modelTypeOrder, ballSphereOrder, balloonPoints, b) ==
    PushModality(b.block,
                 ModalityLoop(i + 1, modalityOrder, modelTypeOrder,
                              ballSphereOrder, balloonPoints, b.random))

SessionReturn(sessionNumber, modalityOrder, modelTypeOrder, ballSphereOrder, balloonPoints, m) ==
    [session |->
        [sessionNumber |-> sessionNumber,
         modalityOrder |-> modalityOrder,
         modelTypeOrder |-> modelTypeOrder,
         ballSphereOrder |-> ballSphereOrder,
         balloonPointOrder |-> MapId(balloonPoints),
         modalities |-> m.modalities,
         totalMeasurements |-> 80],
     random |-> m.random]

\* The session and the random source after the call.
generateSession(sessionNumber, modalityOrder, modelTypeOrder, ballSphereOrder, balloonPoints, random) ==
    SessionReturn(sessionNumber, modalityOrder, modelTypeOrder, ballSphereOrder,
                  balloonPoints,
                  ModalityLoop(0, modalityOrder, modelTypeOrder, ballSphereOrder,
                               balloonPoints, random))

\* Variant: sessions 2 and 3 generated anew from the stream, not copied
NextSession(sessionNumber, s, random) ==
    generateSession(sessionNumber, s.modalityOrder, s.modelTypeOrder,
                    s.ballSphereOrder, s.modalities[1].balloonBlock.models, random)

ThreeSessions(recordId, randomSeed, base, second, third) ==
    [participant |->
        [recordId |-> recordId,
         randomSeed |-> randomSeed,
         sessions |-> <<base.session, second.session, third.session>>],
     random |-> third.random]

TwoSessions(recordId, randomSeed, base, second) ==
    ThreeSessions(recordId, randomSeed, base, second,
                  NextSession(3, base.session, second.random))

ParticipantReturn_independent(recordId, randomSeed, base) ==
    TwoSessions(recordId, randomSeed, base, NextSession(2, base.session, base.random))

\* ------------------------------------------------------------ participant
\* sessions = [{...baseSession, sessionNumber: 1}, {... 2}, {... 3}]
ParticipantReturn(recordId, randomSeed, base) ==
    [participant |->
        [recordId |-> recordId,
         randomSeed |-> randomSeed,
         sessions |-> << [base.session EXCEPT !.sessionNumber = 1],
                         [base.session EXCEPT !.sessionNumber = 2],
                         [base.session EXCEPT !.sessionNumber = 3] >>],
     random |-> base.random]

balloonPointsOf(shuffledBalloonIds, pressures) ==
    [idx \in 1..Len(shuffledBalloonIds) |->
        [id |-> shuffledBalloonIds[idx], pressure |-> pressures[idx], order |-> idx]]

\* l4: shuffleArray(balloonPointIds, random); then the base session
AssignSession(recordId, randomSeed, modalityOrder, modelTypeOrder, ballSphereOrder, pressures, l4) ==
    ParticipantReturn(recordId, randomSeed,
        generateSession(1, modalityOrder, modelTypeOrder, ballSphereOrder,
                        balloonPointsOf(l4.shuffled, pressures), l4.random))

\* pr: generateUniquePressures(random); then layer 4's id shuffle
AssignBalloonIds(recordId, randomSeed, modalityOrder, modelTypeOrder, ballSphereOrder, pr) ==
    AssignSession(recordId, randomSeed, modalityOrder, modelTypeOrder, ballSphereOrder,
                  pr.pressures, shuffleArray(<<"P1", "P2", "P3", "P4">>, pr.random))

\* l3: shuffleArray(ballSphereIds, random); then layer 4's pressures
AssignPressures(recordId, randomSeed, modalityOrder, modelTypeOrder, l3) ==
    AssignBalloonIds(recordId, randomSeed, modalityOrder, modelTypeOrder, l3.shuffled,
                     generateUniquePressures(l3.random))

\* l2: shuffleArray(modelTypes, random); then layer 3
AssignBallOrder(recordId, randomSeed, modalityOrder, l2) ==
    AssignPressures(recordId, randomSeed, modalityOrder, l2.shuffled,
                    shuffleArray(MapId(BALL_SPHERES), l2.random))

\* l1: shuffleArray(modalities, random); then layer 2
AssignModelTypes(recordId, randomSeed, l1) ==
    AssignBallOrder(recordId, randomSeed, l1.shuffled,
                    shuffleArray(<<"ball", "balloon">>, l1.random))

\* The body of generateParticipantRandomization on a given random source:
\* the participant and the source after the last draw.
AssignFrom(recordId, randomSeed, random) ==
    AssignModelTypes(recordId, randomSeed,
                     shuffleArray(<<"ultrasound", "palpation">>, random))

\* Variant: the generator's state outlives the call (one stream per process)
generateParticipantRandomization_sharedStream(recordId, randomSeed) ==
    AssignFrom(recordId, randomSeed,
               createSeededRandom(randomSeed
                   + (IF "calls" \in DOMAIN call THEN call.calls ELSE 0))).participant

\* Variant: the record id enters the seed of the stream
generateParticipantRandomization_idSeeded(recordId, randomSeed) ==
    AssignFrom(recordId, randomSeed,
               createSeededRandom(randomSeed + recordId)).participant

generateParticipantRandomization(recordId, randomSeed) ==
    AssignFrom(recordId, randomSeed, createSeededRandom(randomSeed)).participant

\* ------------------------------------------------------------ one assignment, statement by statement
\* A call of generateParticipantRandomization at a statement: pc names the
\* statement to run next, trace lists the statements run so far with the
\* number of calls of random() made before and after each.
LayerCall(recordId, randomSeed) ==
    [recordId |-> recordId, randomSeed |-> randomSeed, pc |-> "create",
     random |-> Null, trace |-> <<>>,
     modalityOrder |-> <<>>, modelTypeOrder |-> <<>>, ballSphereOrder |-> <<>>,
     pressures |-> <<>>, shuffledBalloonIds |-> <<>>, balloonPoints |-> <<>>,
     i |-> 0, block |-> "ball", rep |-> 0, measurements |-> <<>>,
     ballMeasurements |-> <<>>, modalities |-> <<>>, result |-> Null]

\* Variant: the balloon ids are shuffled before the pressures are drawn
LayerAfter_idsFirst(step) ==
    CASE step = "create" -> "modalities"
      [] step = "modalities" -> "modelTypes"
      [] step = "modelTypes" -> "ballSphereOrder"
      [] step = "ballSphereOrder" -> "balloonIds"
      [] step = "balloonIds" -> "pressures"
      [] step = "pressures" -> "points"
      [] step = "points" -> "block"

\* The statement that follows a statement of the function body
LayerAfter(step) ==
    CASE step = "create" -> "modalities"
      [] step = "modalities" -> "modelTypes"
      [] step = "modelTypes" -> "ballSphereOrder"
      [] step = "ballSphereOrder" -> "pressures"
      [] step = "pressures" -> "balloonIds"
      [] step = "balloonIds" -> "points"
      [] step = "points" -> "block"

\* The call after a statement that left the random source as `random`
Marked(c, step, random) ==
    [c EXCEPT !.trace = Append(@, [step |-> step, from |-> c.random.n,
                                   to |-> random.n]),
              !.random = random]

\* const random = createSeededRandom(randomSeed)
LayerCreate(c) ==
    [c EXCEPT !.random = createSeededRandom(c.randomSeed), !.pc = LayerAfter("create")]

\* Layers 1 to 3, l being what shuffleArray returned
LayerModalities(c, l) ==
    [Marked(c, "modalities", l.random) EXCEPT
        !.modalityOrder = l.shuffled, !.pc = LayerAfter("modalities")]

LayerModelTypes(c, l) ==
    [Marked(c, "modelTypes", l.random) EXCEPT
        !.modelTypeOrder = l.shuffled, !.pc = LayerAfter("modelTypes")]

LayerBallSpheres(c, l) ==
    [Marked(c, "ballSphereOrder", l.random) EXCEPT
        !.ballSphereOrder = l.shuffled, !.pc = LayerAfter("ballSphereOrder")]

\* Layer 4: pr being what generateUniquePressures returned
LayerPressures(c, pr) ==
    [Marked(c, "pressures", pr.random) EXCEPT
        !.pressures = pr.pressures, !.pc = LayerAfter("pressures")]

LayerBalloonIds(c, l) ==
    [Marked(c, "balloonIds", l.random) EXCEPT
        !.shuffledBalloonIds = l.shuffled, !.pc = LayerAfter("balloonIds")]

\* const balloonPoints = shuffledBalloonIds.map(...), then generateSession is
\* entered
LayerPoints(c) ==
    [c EXCEPT !.balloonPoints = balloonPointsOf(c.shuffledBalloonIds, c.pressures),
              !.pc = LayerAfter("points")]

\* The statement of the body that is next in the call c
LayerStatement(c) ==
    CASE c.pc = "create" -> LayerCreate(c)
      [] c.pc = "modalities" ->
            LayerModalities(c, shuffleArray(<<"ultrasound", "palpation">>, c.random))
      [] c.pc = "modelTypes" ->
            LayerModelTypes(c, shuffleArray(<<"ball", "balloon">>, c.random))
      [] c.pc = "ballSphereOrder" ->
            LayerBallSpheres(c, shuffleArray(MapId(BALL_SPHERES), c.random))
      [] c.pc = "pressures" -> LayerPressures(c, generateUniquePressures(c.random))
      [] c.pc = "balloonIds" ->
            LayerBalloonIds(c, shuffleArray(<<"P1", "P2", "P3", "P4">>, c.random))
      [] c.pc = "points" -> LayerPoints(c)

LayerPcs ==
    {"create", "modalities", "modelTypes", "ballSphereOrder", "pressures",
     "balloonIds", "points"}

\* generateSession, block by block. The modality, the ids and the names of
\* the block the call is at
BlockModality(c) == c.modalityOrder[c.i + 1]

BlockIds(c) ==
    IF c.block = "ball" THEN c.ballSphereOrder ELSE MapId(c.balloonPoints)

BlockNames(c) ==
    IF c.block = "ball" THEN MapName(ballModelsOf(c.ballSphereOrder))
    ELSE MapPressureName(c.balloonPoints)

BlockLabel(c) == BlockModality(c) \o " " \o c.block

\* Variant: every block enters the loop of the randomized branch
BlockStart_alwaysCycle(c) ==
    [c EXCEPT !.measurements = <<>>, !.rep = 1, !.pc = "cycle"]

\* isPalpation ? generateRandomizedCycleMeasurements(...) : generateCycleMeasurements(...):
\* the fixed branch is one step, the randomized one enters its loop
BlockStart(c) ==
    IF BlockModality(c) = "palpation"
    THEN [c EXCEPT !.measurements = <<>>, !.rep = 1, !.pc = "cycle"]
    ELSE [Marked(c, BlockLabel(c), c.random) EXCEPT
             !.measurements = generateCycleMeasurements(BlockIds(c), BlockNames(c)),
             !.pc = "push"]

\* One pass of the loop of generateRandomizedCycleMeasurements, perm being
\* what shuffleArray(indices, random) returned
CyclePass(c, perm) ==
    [Marked(c, BlockLabel(c), perm.random) EXCEPT
        !.measurements = @ \o CycleOf(c.rep, BlockIds(c), BlockNames(c), perm.shuffled),
        !.rep = @ + 1,
        !.pc = IF c.rep + 1 <= REPETITIONS THEN "cycle" ELSE "push"]

\* The modality block pushed after its balloon measurements
PushedBlock(c) ==
    ModalityPush(c.i, BlockModality(c), c.modelTypeOrder,
                 ballModelsOf(c.ballSphereOrder), c.balloonPoints,
                 c.ballMeasurements,
                 [measurements |-> c.measurements, random |-> c.random]).block

\* After the measurements of a block: the balloon block follows the ball
\* block, the next modality follows the push
BlockDone(c) ==
    IF c.block = "ball"
    THEN [c EXCEPT !.ballMeasurements = c.measurements, !.block = "balloon",
                   !.pc = "block"]
    ELSE [c EXCEPT !.modalities = Append(@, PushedBlock(c)), !.block = "ball",
                   !.i = @ + 1,
                   !.pc = IF c.i + 1 < Len(c.modalityOrder) THEN "block" ELSE "return"]

\* return of generateSession and of generateParticipantRandomization
LayerReturn(c) ==
    [c EXCEPT !.pc = "done",
              !.result = ParticipantReturn(c.recordId, c.randomSeed,
                             SessionReturn(1, c.modalityOrder, c.modelTypeOrder,
                                           c.ballSphereOrder, c.balloonPoints,
                                           [modalities |-> c.modalities,
                                            random |-> c.random])).participant]

\* ------------------------------------------------------------ schedule
SummaryOf(count) ==
    LET measurementsPerSession == 80
        measurementsPerParticipant == measurementsPerSession * 3
    IN  [totalParticipants |-> count,
         measurementsPerSession |-> measurementsPerSession,
         measurementsPerParticipant |-> measurementsPerParticipant,
         totalMeasurements |-> measurementsPerParticipant * count]

\* new Date(ms).toISOString(), kept apart from the number it is made from
ISOString(ms) == <<"ISO", ms>>

\* The loop of generateExperimentData: one seed drawn from globalRandom per
\* participant, ids 1..totalParticipants in order.
RECURSIVE GenerateLoop(_, _, _)
RECURSIVE GenerateStep(_, _, _)
\* Variant: the loop bound i <= totalParticipants
GenerateLoop_offByOne(i, totalParticipants, globalRandom) ==
    IF i <= totalParticipants
    THEN GenerateStep(i, totalParticipants, Draw(globalRandom))
    ELSE <<>>

GenerateLoop(i, totalParticipants, globalRandom) ==
    IF i < totalParticipants
    THEN GenerateStep(i, totalParticipants, Draw(globalRandom))
    ELSE <<>>

\* the loop body, d being the call globalRandom()
GenerateStep(i, totalParticipants, d) ==
    <<generateParticipantRandomization(i + 1, Scale(d.u, 1000000))>>
        \o GenerateLoop(i + 1, totalParticipants, d.next)

\* now: Date.now() when the global source is created (the generator reads it
\* modulo 2^32); at: the clock when generatedAt is taken.
generateExperimentData(totalParticipants, now, at) ==
    IF totalParticipants <= 0
    THEN [threw |-> "Total number of participants must be positive"]
    ELSE [generatedAt |-> ISOString(at),
          participants |-> GenerateLoop(0, totalParticipants, createSeededRandom(now)),
          summary |-> SummaryOf(totalParticipants)]

\* Variant: the summary is carried over, not recomputed
updateSummary_stale(d) == d

updateSummary(d) == [d EXCEPT !.summary = SummaryOf(Len(d.participants))]

\* Variant: the new participant is put in front, [newParticipant, ...participants]
addParticipant_inFront(d, randomSeed) ==
    updateSummary([d EXCEPT !.participants =
        <<generateParticipantRandomization(Len(d.participants) + 1, randomSeed)>> \o @])

\* randomSeed: the value of Math.floor(Math.random() * 1000000)
addParticipant(d, randomSeed) ==
    LET newRecordId == Len(d.participants) + 1
        newParticipant == generateParticipantRandomization(newRecordId, randomSeed)
    IN  updateSummary([d EXCEPT !.participants = Append(@, newParticipant)])

\* participants.filter(p => p.recordId !== recordId)
RECURSIVE FilterOut(_, _)
\* Variant: the filter p.recordId < recordId
FilterOut_below(participants, recordId) ==
    IF participants = <<>> THEN <<>>
    ELSE IF Head(participants).recordId < recordId
         THEN <<Head(participants)>> \o FilterOut(Tail(participants), recordId)
         ELSE FilterOut(Tail(participants), recordId)

FilterOut(participants, recordId) ==
    IF participants = <<>> THEN <<>>
    ELSE IF Head(participants).recordId # recordId
         THEN <<Head(participants)>> \o FilterOut(Tail(participants), recordId)
         ELSE FilterOut(Tail(participants), recordId)

\* Variant: no renumbering after the filter
Renumber_keepIds(participants) == participants

Renumber(participants) ==
    [index \in 1..Len(participants) |->
        [participants[index] EXCEPT !.recordId = index]]

removeParticipant(d, recordId) ==
    updateSummary([d EXCEPT !.participants = Renumber(FilterOut(@, recordId))])

\* Variant: regenerated from the participant's own seed, the new one unused
regenerateParticipant_keepsSeed(d, recordId, newRandomSeed) ==
    [d EXCEPT !.participants =
        [k \in 1..Len(@) |->
            IF @[k].recordId = recordId
            THEN generateParticipantRandomization(recordId, @[k].randomSeed)
            ELSE @[k]]]

\* newRandomSeed: the value of Math.floor(Math.random() * 1000000)
regenerateParticipant(d, recordId, newRandomSeed) ==
    LET regeneratedParticipant == generateParticipantRandomization(recordId, newRandomSeed)
    IN  [d EXCEPT !.participants =
            [k \in 1..Len(@) |->
                IF @[k].recordId = recordId THEN regeneratedParticipant ELSE @[k]]]

\* ------------------------------------------------------------ flattenForExcel
\* acc: the rows pushed so far and the counter measurementNumber
RowOf(participant, session, modalityBlock, modelBlock, measurement, measurementNumber) ==
    [participantId |-> participant.recordId,
     randomSeed |-> participant.randomSeed,
     session |-> session.sessionNumber,
     modality |-> modalityBlock.modality,
     modalityOrder |-> modalityBlock.order,
     modelType |-> modelBlock.modelType,
     modelTypeOrder |-> modelBlock.order,
     repetition |-> measurement.repetition,
     modelPosition |-> measurement.modelOrder,
     modelId |-> measurement.modelId,
     modelName |-> measurement.modelName,
     measurementNumber |-> measurementNumber]

\* The rows pushed by for (const measurement of modelBlock.measurements): the
\* k-th pass increments the counter to measurementNumber + k and pushes a row
BlockRows(participant, session, modalityBlock, modelBlock, measurementNumber) ==
    [k \in 1..Len(modelBlock.measurements) |->
        RowOf(participant, session, modalityBlock, modelBlock,
              modelBlock.measurements[k], measurementNumber + k)]

FlattenMeasurements(acc, participant, session, modalityBlock, modelBlock) ==
    [rows |-> acc.rows \o BlockRows(participant, session, modalityBlock, modelBlock,
                                    acc.measurementNumber),
     measurementNumber |-> acc.measurementNumber + Len(modelBlock.measurements)]

orderedBlocks(session, modalityBlock) ==
    IF session.modelTypeOrder[1] = "ball"
    THEN <<modalityBlock.ballBlock, modalityBlock.balloonBlock>>
    ELSE <<modalityBlock.balloonBlock, modalityBlock.ballBlock>>

RECURSIVE FlattenBlocks(_, _, _, _, _, _)
\* for (const modelBlock of orderedBlocks), from the k-th on
FlattenBlocks(acc, participant, session, modalityBlock, blocks, k) ==
    IF k <= Len(blocks)
    THEN FlattenBlocks(
             FlattenMeasurements(acc, participant, session, modalityBlock, blocks[k]),
             participant, session, modalityBlock, blocks, k + 1)
    ELSE acc

RECURSIVE FlattenModalities(_, _, _, _)
\* for (const modalityBlock of session.modalities), from the k-th on
FlattenModalities(acc, participant, session, k) ==
    IF k <= Len(session.modalities)
    THEN FlattenModalities(
             FlattenBlocks(acc, participant, session, session.modalities[k],
                           orderedBlocks(session, session.modalities[k]), 1),
             participant, session, k + 1)
    ELSE acc

RECURSIVE FlattenSessions(_, _, _)
\* for (const session of participant.sessions), from the k-th on
FlattenSessions(acc, participant, k) ==
    IF k <= Len(participant.sessions)
    THEN FlattenSessions(FlattenModalities(acc, participant, participant.sessions[k], 1),
                         participant, k + 1)
    ELSE acc

\* Variant: the counter starts again with each participant
FlattenParticipant_restart(acc, participant) ==
    FlattenSessions([acc EXCEPT !.measurementNumber = 0], participant, 1)

\* one pass of for (const participant of data.participants)
FlattenParticipant(acc, participant) == FlattenSessions(acc, participant, 1)

\* The call flattenForExcel(d) at the head of its outer loop: rows = [],
\* measurementNumber = 0, the participant to visit next
flattenForExcel(d) ==
    [rows |-> <<>>, measurementNumber |-> 0, next |-> 1, pc |-> "loop"]

\* One pass of the outer loop over call state f
FlattenNext(f, participants) ==
    [next |-> f.next + 1, pc |-> "loop"]
        @@ FlattenParticipant([rows |-> f.rows, measurementNumber |-> f.measurementNumber],
                              participants[f.next])

\* ------------------------------------------------------------ persistence
\* A text kept in the local store: the JSON text of a value, or a text that is
\* no JSON (the empty text among them).
JSONStringify(value) == [kind |-> "json", value |-> value]

NotJSON == [kind |-> "text", value |-> "{not json"]

EmptyText == [kind |-> "text", value |-> ""]

\* JSON.parse(text): the value, or a SyntaxError thrown
JSONParse(text) ==
    IF text.kind = "json"
    THEN [threw |-> FALSE, value |-> text.value]
    ELSE [threw |-> TRUE, value |-> Null]

\* typeof window !== 'undefined': the calls are made by the handlers and
\* effects of the page, which run in the browser
HasWindow == TRUE

\* localStorage.setItem(STORAGE_KEY, JSON.stringify(data))
saveToLocalStorage(st, d) ==
    IF HasWindow THEN [st EXCEPT !.local = JSONStringify(d)] ELSE st

\* Variant: JSON.parse outside any try
ParsedOrNull_uncaught(parsed) ==
    IF parsed.threw
    THEN [result |-> Null, raised |-> "SyntaxError"]
    ELSE [result |-> parsed.value, raised |-> ""]

\* try { return JSON.parse(stored) } catch { return null }
ParsedOrNull(parsed) ==
    IF parsed.threw
    THEN [result |-> Null, raised |-> ""]
    ELSE [result |-> parsed.value, raised |-> ""]

\* if (stored): null and the empty string are falsy
Truthy(stored) == stored # Null /\ stored # EmptyText

\* What the call returns and what it raises ("" when nothing)
loadFromLocalStorage(st) ==
    IF HasWindow /\ Truthy(st.local)
    THEN ParsedOrNull(JSONParse(st.local))
    ELSE [result |-> Null, raised |-> ""]

clearLocalStorage(st) == IF HasWindow THEN [st EXCEPT !.local = Null] ELSE st

\* A call of the persistence layer: the function, its argument, the statement
\* it is at, the error caught or raised ("" when none), the snapshot read and
\* the value returned.
NoCall == [fn |-> "none", arg |-> Null, pc |-> "idle", error |-> "", doc |-> Null, result |-> Null, n |-> 0]

\* saveToFirestore(data) up to its await: the timer is armed, setDoc is issued
saveToFirestore(c, d) ==
    [fn |-> "save", arg |-> d, pc |-> "await", error |-> "", doc |-> Null, result |-> Null, n |-> c.n + 1]

\* await Promise.race([setDoc(docRef, data), timeoutPromise]) is over:
\* outcome "resolved" (setDoc won), "rejected" (setDoc failed), "timeout"
SaveAwaited(c, outcome) ==
    IF outcome = "resolved" THEN [c EXCEPT !.pc = "try"]
    ELSE IF outcome = "rejected" THEN [c EXCEPT !.pc = "catch", !.error = "setDoc failed"]
    ELSE [c EXCEPT !.pc = "catch", !.error = "Firestore save timeout after 10s"]

\* The remote side of the await: a write that won is committed; one that lost
\* to the timer stays in flight behind those already there
RemoteAfterSave(st, c, outcome) ==
    IF outcome = "resolved" THEN [st EXCEPT !.remote = c.arg]
    ELSE IF outcome = "timeout" THEN [st EXCEPT !.inflight = Append(@, c.arg)]
    ELSE st

\* Variant: the catch block rethrows at once
SaveCatch_throwFirst(st, c) == [store |-> st, call |-> [c EXCEPT !.pc = "threw"]]

\* catch (error) { saveToLocalStorage(data); ... now at throw error
SaveCatch(st, c) ==
    [store |-> saveToLocalStorage(st, c.arg), call |-> [c EXCEPT !.pc = "rethrow"]]

\* Variant: the try block ends with the await
SaveTry_remoteOnly(st, c) == [store |-> st, call |-> [c EXCEPT !.pc = "returned"]]

\* saveToLocalStorage(data) after the await; the call returns
SaveTry(st, c) ==
    [store |-> saveToLocalStorage(st, c.arg), call |-> [c EXCEPT !.pc = "returned"]]

\* throw error
SaveRethrow(c) == [c EXCEPT !.pc = "threw"]

\* loadFromFirestore() up to its await
loadFromFirestore(c) ==
    [fn |-> "load", arg |-> Null, pc |-> "await", error |-> "", doc |-> Null, result |-> Null, n |-> c.n + 1]

\* await Promise.race([getDoc(docRef), timeoutPromise]) is over; snapshot is
\* the document read (Null: docSnap.exists() is false)
LoadAwaited(c, outcome, snapshot) ==
    IF outcome = "resolved"
    THEN IF snapshot # Null
         THEN [c EXCEPT !.pc = "copy", !.doc = snapshot]
         ELSE [c EXCEPT !.pc = "returned", !.result = Null]
    ELSE IF outcome = "rejected" THEN [c EXCEPT !.pc = "fallback", !.error = "getDoc failed"]
    ELSE [c EXCEPT !.pc = "fallback", !.error = "Firestore timeout after 10s"]

\* saveToLocalStorage(data); return data
LoadCopy(st, c) ==
    [store |-> saveToLocalStorage(st, c.doc),
     call |-> [c EXCEPT !.pc = "returned", !.result = c.doc]]

\* Variant: the catch block lets the error through
LoadCaught_rethrow(c, fromLocal) == [c EXCEPT !.pc = "threw"]

\* catch { return loadFromLocalStorage() }, fromLocal being what that call gives
LoadCaught(c, fromLocal) ==
    IF fromLocal.raised # ""
    THEN [c EXCEPT !.pc = "threw", !.error = fromLocal.raised]
    ELSE [c EXCEPT !.pc = "returned", !.result = fromLocal.result]

\* a call of loadFromLocalStorage() on its own
LocalLoaded(c, fromLocal) ==
    IF fromLocal.raised # ""
    THEN [fn |-> "loadLocal", arg |-> Null, pc |-> "threw", error |-> fromLocal.raised, doc |-> Null, result |-> Null, n |-> c.n + 1]
    ELSE [fn |-> "loadLocal", arg |-> Null, pc |-> "returned", error |-> "", doc |-> Null, result |-> fromLocal.result, n |-> c.n + 1]

\* ------------------------------------------------------------ stores in flight
\* The continuation of saveToFirestore after its await, in one piece: no
\* other code runs between the end of the await and the return or the throw
Rethrown(r) == [store |-> r.store, call |-> SaveRethrow(r.call)]

SaveContinues(st, c, outcome) ==
    IF outcome = "resolved"
    THEN SaveTry(st, SaveAwaited(c, outcome))
    ELSE Rethrown(SaveCatch(st, SaveAwaited(c, outcome)))

\* A write handed to the client and not yet settled: setDoc(docRef, arg) of
\* the call number owner, or the deleteDoc(docRef) of clearFirestore (owner 0)
PendingWrite(op, arg, owner) == [op |-> op, arg |-> arg, owner |-> owner]

RemoveAt(q, i) == SubSeq(q, 1, i - 1) \o SubSeq(q, i + 1, Len(q))

\* The remote document after the write w is committed
Committed(st, w) ==
    [st EXCEPT !.remote = IF w.op = "delete" THEN Null ELSE w.arg]

\* clearFirestore after its await, in the try and in the catch alike:
\* clearLocalStorage()
ClearContinues(st) == clearLocalStorage(st)

\* ------------------------------------------------------------ the form
\* A text typed into the form is the sequence of its characters.
DigitChars == <<"0", "1", "2", "3", "4", "5", "6", "7", "8", "9">>

IsDigit(ch) == \E k \in 1..10 : DigitChars[k] = ch

DigitValue(ch) == (CHOOSE k \in 1..10 : DigitChars[k] = ch) - 1

RECURSIVE SkipSpaces(_)
SkipSpaces(chars) ==
    IF chars # <<>> /\ Head(chars) = " " THEN SkipSpaces(Tail(chars)) ELSE chars

RECURSIVE DigitsValue(_, _, _)
\* The number the leading digits of chars spell, after the digits read so far
\* (seen of them, spelling value)
DigitsValue(chars, seen, value) ==
    IF chars # <<>> /\ IsDigit(Head(chars))
    THEN DigitsValue(Tail(chars), seen + 1, 10 * value + DigitValue(Head(chars)))
    ELSE [nan |-> seen = 0, value |-> value]

Negated(parsed) == [parsed EXCEPT !.value = 0 - @]

SignedValue(chars) ==
    IF chars # <<>> /\ Head(chars) = "-" THEN Negated(DigitsValue(Tail(chars), 0, 0))
    ELSE IF chars # <<>> /\ Head(chars) = "+" THEN DigitsValue(Tail(chars), 0, 0)
    ELSE DigitsValue(chars, 0, 0)

\* parseInt(inputValue, 10): leading blanks, a sign, then digits up to the
\* first other character; NaN without a digit
parseInt(inputValue) == SignedValue(SkipSpaces(inputValue))

\* Variant: the upper limit is not checked
isValidNumber_noMaximum(parsedValue) == ~parsedValue.nan /\ parsedValue.value >= 1

\* !isNaN(parsedValue) && parsedValue >= 1 && parsedValue <= 50
isValidNumber(parsedValue) ==
    ~parsedValue.nan /\ parsedValue.value >= 1 /\ parsedValue.value <= 50

\* getValidationMessage(): "" stands for null
getValidationMessage(inputValue, parsedValue) ==
    IF inputValue = <<>> THEN "Please enter a number between 1 and 50"
    ELSE IF parsedValue.nan THEN "Please enter a valid number"
    ELSE IF parsedValue.value < 1 THEN "Minimum 1 participant required"
    ELSE IF parsedValue.value > 50 THEN "Maximum 50 participants allowed"
    ELSE ""

\* ------------------------------------------------------------ the page
\* process.env.NEXT_PUBLIC_SITE_PASSWORD || 'hamsandwich1943'; an unset and an
\* empty variable are both ""
SITE_PASSWORD(env) == IF env = "" THEN "hamsandwich1943" ELSE env

\* Variant: an empty input passes
PasswordMatches_emptyPasses(password, sitePassword) ==
    password = "" \/ password = sitePassword

\* password === SITE_PASSWORD
PasswordMatches(password, sitePassword) == password = sitePassword

\* Home at its first render, with the variable env in the build
Home(env) ==
    [env |-> env,
     isAuthenticated |-> FALSE, password |-> "", authError |-> "",
     isLoading |-> FALSE, isDataLoading |-> FALSE,
     inputValue |-> <<"2", "5">>,
     timer |-> 0, clearing |-> FALSE,
     effect |-> FALSE, handed |-> Null, loads |-> 0,
     event |-> "mount"]

\* handleLogin with the text typed as password
handleLogin(p, password) ==
    IF PasswordMatches(password, SITE_PASSWORD(p.env))
    THEN [p EXCEPT !.password = password, !.isAuthenticated = TRUE, !.authError = "",
                   !.isDataLoading = TRUE, !.loads = @ + 1,
                   !.effect = ~p.isAuthenticated, !.event = "login"]
    ELSE [p EXCEPT !.password = password, !.authError = "Incorrect password",
                   !.event = "login"]

\* What loadData passes to setExperimentData (Null: it is not called):
\* fromFirestore is what loadFromFirestore() gave, fromLocal what
\* loadFromLocalStorage() gives when it is asked
LoadedData(fromFirestore, fromLocal) ==
    IF fromFirestore.raised # "" THEN fromLocal.result
    ELSE IF fromFirestore.result # Null THEN fromFirestore.result
    ELSE fromLocal.result

\* Variant: only schedules with participants are saved
EffectSaves_nonEmpty(isAuthenticated, experimentData) ==
    isAuthenticated /\ experimentData # Null /\ experimentData.participants # <<>>

\* if (isAuthenticated && experimentData)
EffectSaves(isAuthenticated, experimentData) ==
    isAuthenticated /\ experimentData # Null

\* Variant: the button is disabled above 50 participants only
AddDisabled_above(experimentData) == Len(experimentData.participants) > 50

\* disabled={experimentData.participants.length >= 50} of the Add button
AddDisabled(experimentData) == Len(experimentData.participants) >= 50

\* handleSubmit of the form with inputValue typed: the state of the page after
\* it (handleGenerate arms the timer when the number is valid)
handleSubmit(p, inputValue) ==
    IF isValidNumber(parseInt(inputValue))
    THEN [p EXCEPT !.inputValue = inputValue, !.isLoading = TRUE,
                   !.timer = parseInt(inputValue).value, !.event = "submit"]
    ELSE [p EXCEPT !.inputValue = inputValue, !.event = "submit"]

NoOp == [op |-> "init", id |-> 0, seed |-> 0, count |-> 0]

\* ------------------------------------------------------------ the schedule's caller
\* The value Math.floor(Math.random() * 1000000) takes in the model
AmbientSeeds == {271829}

\* The clock reading Date.now(), already reduced modulo 2^32
ClockReadings == {1700000000}

\* Record ids a caller may pass: those in use and one that is not
RecordIds(d) == 1..(Len(d.participants) + 1)

CountOf(d) == IF d = Null THEN 0 ELSE Len(d.participants)

Init ==
    /\ data = Null
    /\ lastOp = NoOp
    /\ call = Null
    /\ sh = Null
    /\ rows = Null
    /\ store = Null
    /\ io = Null
    /\ page = Null

\* try { setExperimentData(generateExperimentData(n)) } catch { log }
CaughtGenerate(d, r) == IF "threw" \in DOMAIN r THEN d ELSE r

\* What generateExperimentData returns for each count asked and each clock
\* reading (the function reads nothing else), tabulated once.
GenerateResults ==
    [c \in (0..MaxParticipants) \X ClockReadings |->
        generateExperimentData(c[1], c[2], c[2])]

Generate ==
    /\ \E c \in DOMAIN GenerateResults :
        /\ data' = CaughtGenerate(data, GenerateResults[c])
        /\ lastOp' = [op |-> "generate", id |-> c[1], seed |-> c[2],
                      count |-> CountOf(data)]
    /\ UNCHANGED <<call, sh, rows, store, io, page>>

Add ==
    /\ data # Null
    /\ Len(data.participants) < MaxParticipants
    /\ \E seed \in AmbientSeeds :
        /\ data' = addParticipant(data, seed)
        /\ lastOp' = [op |-> "add", id |-> Len(data.participants) + 1,
                      seed |-> seed, count |-> CountOf(data)]
    /\ UNCHANGED <<call, sh, rows, store, io, page>>

Remove ==
    /\ data # Null
    /\ \E id \in RecordIds(data) :
        /\ data' = removeParticipant(data, id)
        /\ lastOp' = [op |-> "remove", id |-> id, seed |-> 0,
                      count |-> CountOf(data)]
    /\ UNCHANGED <<call, sh, rows, store, io, page>>

Regenerate ==
    /\ data # Null
    /\ \E id \in RecordIds(data), seed \in AmbientSeeds :
        /\ data' = regenerateParticipant(data, id, seed)
        /\ lastOp' = [op |-> "regenerate", id |-> id, seed |-> seed,
                      count |-> CountOf(data)]
    /\ UNCHANGED <<call, sh, rows, store, io, page>>

Next == Generate \/ Add \/ Remove \/ Regenerate

Spec == Init /\ [][Next]_vars

\* ------------------------------------------------------------ one assignment
\* Seeds sampled from the range 0..999999 of stored seeds, both ends included
SeedSamples == {999999} \cup {(k * 104729) % 1000000 : k \in 0..(MaxSeedSamples - 1)}

InitAssign ==
    /\ data = Null
    /\ lastOp = NoOp
    /\ sh = Null
    /\ rows = Null
    /\ store = Null
    /\ io = Null
    /\ page = Null
    /\ call \in [recordId : 1..MaxRecordId, randomSeed : SeedSamples,
                 result : {Null}, calls : {0}]

\* The process calls generateParticipantRandomization(recordId, randomSeed).
Assign ==
    /\ call.calls < MaxCalls
    /\ call' = [call EXCEPT
                   !.result = generateParticipantRandomization(call.recordId,
                                                               call.randomSeed),
                   !.calls = @ + 1]
    /\ UNCHANGED <<data, lastOp, sh, rows, store, io, page>>

NextAssign == Assign

SpecAssign == InitAssign /\ [][NextAssign]_vars

\* ------------------------------------------------------------ one assignment at work
InitLayers ==
    /\ data = Null
    /\ lastOp = NoOp
    /\ sh = Null
    /\ rows = Null
    /\ store = Null
    /\ io = Null
    /\ page = Null
    /\ call \in {LayerCall(1, randomSeed) : randomSeed \in SeedSamples}

LayerStep ==
    /\ call.pc \in LayerPcs
    /\ call' = LayerStatement(call)
    /\ UNCHANGED <<data, lastOp, sh, rows, store, io, page>>

SessionBlock ==
    /\ call.pc = "block"
    /\ call' = BlockStart(call)
    /\ UNCHANGED <<data, lastOp, sh, rows, store, io, page>>

SessionCycle ==
    /\ call.pc = "cycle"
    /\ call' = CyclePass(call, shuffleArray(Indices(Len(BlockIds(call))), call.random))
    /\ UNCHANGED <<data, lastOp, sh, rows, store, io, page>>

SessionPush ==
    /\ call.pc = "push"
    /\ call' = BlockDone(call)
    /\ UNCHANGED <<data, lastOp, sh, rows, store, io, page>>

LayersReturn ==
    /\ call.pc = "return"
    /\ call' = LayerReturn(call)
    /\ UNCHANGED <<data, lastOp, sh, rows, store, io, page>>

NextLayers == LayerStep \/ SessionBlock \/ SessionCycle \/ SessionPush \/ LayersReturn

SpecLayers == InitLayers /\ [][NextLayers]_vars

\* ------------------------------------------------------------ one stream
\* Seeds of the streams drawn from: stored seeds, a clock reading, the largest
\* values of 31 and of 32 bits (-1 is 2^32 - 1 modulo 2^32)
StreamSeeds == SeedSamples \cup {1700000000, 2147483647, -1}

\* The closure returned by createSeededRandom(seed) and the value of its last
\* call
StreamCall(seed) ==
    [seed |-> seed, random |-> createSeededRandom(seed), last |-> Null, pc |-> "stream"]

\* One call random(), d being what it gives
StreamDrawn(c, d) == [c EXCEPT !.random = d.next, !.last = d.u]

InitStream ==
    /\ data = Null
    /\ lastOp = NoOp
    /\ sh = Null
    /\ rows = Null
    /\ store = Null
    /\ io = Null
    /\ page = Null
    /\ call \in {StreamCall(seed) : seed \in StreamSeeds}

StreamDraw ==
    /\ call.random.n < MaxDraws
    /\ call' = StreamDrawn(call, Draw(call.random))
    /\ UNCHANGED <<data, lastOp, sh, rows, store, io, page>>

NextStream == StreamDraw

SpecStream == InitStream /\ [][NextStream]_vars

\* ------------------------------------------------------------ the pressures, pass by pass
\* Values an arbitrary random source gives: those that make the candidates 1,
\* 5, 11, 55 and 100
PressureWords == {<<0, 0>>, <<2622, 0>>, <<6554, 0>>, <<35390, 0>>, <<65535, 65535>>}

\* A call of generateUniquePressures at its loop; draws counts the calls of
\* random() it has made
PressureCall ==
    [pc |-> "pressureLoop", pressures |-> <<>>, attempts |-> 0, draws |-> 0,
     result |-> Null]

\* One pass of the while loop, c being the candidate randomInt(1, 100, random)
PressurePass(p, c) ==
    [p EXCEPT !.pressures = IF isFarEnough(p.pressures, c.value)
                            THEN Append(@, c.value) ELSE @,
              !.attempts = @ + 1,
              !.draws = @ + c.random.n]

\* After the loop: if (pressures.length < 4) the fallback, else return pressures
PressureAfterLoop(p) ==
    IF Len(p.pressures) < 4
    THEN [p EXCEPT !.pc = "fallback"]
    ELSE [p EXCEPT !.pc = "returned", !.result = p.pressures]

\* return shuffleArray(fallbackPressures, random), f being what it gives
PressureFallback(p, f) ==
    [p EXCEPT !.pc = "returned", !.result = f.shuffled, !.draws = @ + f.random.n]

InitPressures ==
    /\ data = Null
    /\ lastOp = NoOp
    /\ sh = Null
    /\ rows = Null
    /\ store = Null
    /\ io = Null
    /\ page = Null
    /\ call = PressureCall

PressureIterate ==
    /\ call.pc = "pressureLoop"
    /\ Len(call.pressures) < 4 /\ call.attempts < maxAttempts
    /\ \E w \in PressureWords :
        call' = PressurePass(call, randomInt(1, 100, ScriptedRandom(<<w>>)))
    /\ UNCHANGED <<data, lastOp, sh, rows, store, io, page>>

PressureLoopEnds ==
    /\ call.pc = "pressureLoop"
    /\ ~(Len(call.pressures) < 4 /\ call.attempts < maxAttempts)
    /\ call' = PressureAfterLoop(call)
    /\ UNCHANGED <<data, lastOp, sh, rows, store, io, page>>

PressureFallsBack ==
    /\ call.pc = "fallback"
    /\ \E w1 \in PressureWords, w2 \in PressureWords, w3 \in PressureWords :
        call' = PressureFallback(call,
                    shuffleArray(<<10, 35, 60, 85>>, ScriptedRandom(<<w1, w2, w3>>)))
    /\ UNCHANGED <<data, lastOp, sh, rows, store, io, page>>

NextPressures == PressureIterate \/ PressureLoopEnds \/ PressureFallsBack

SpecPressures == InitPressures /\ [][NextPressures]_vars

\* ------------------------------------------------------------ one shuffle
\* Outputs of an arbitrary random source: 0, just below 1/2, 1/2, just below 1
ScriptWords == {<<0, 0>>, <<32767, 65535>>, <<32768, 0>>, <<65535, 65535>>}

ShuffleItems == {"a", "b"}

RECURSIVE SeqsOfLen(_, _)
SeqsOfLen(S, n) ==
    IF n = 0 THEN {<<>>}
    ELSE {Append(q, e) : q \in SeqsOfLen(S, n - 1), e \in S}

SeqsUpTo(S, n) == UNION {SeqsOfLen(S, k) : k \in 0..n}

\* The call shuffleArray(array, random) about to start: `shuffled` refers to
\* nothing yet.
ShuffleCall(array, random) ==
    [array |-> array, fresh |-> <<>>, ref |-> "none", i |-> 0,
     random |-> random, pc |-> "copy", returned |-> <<>>,
     input |-> array, source |-> random]

InitShuffle ==
    /\ data = Null
    /\ lastOp = NoOp
    /\ call = Null
    /\ rows = Null
    /\ store = Null
    /\ io = Null
    /\ page = Null
    /\ sh \in {ShuffleCall(a, ScriptedRandom(w)) :
                  a \in SeqsUpTo(ShuffleItems, MaxLen),
                  w \in SeqsOfLen(ScriptWords, MaxLen - 1)}

\* The array the name `shuffled` refers to
Shuffled(s) == IF s.ref = "fresh" THEN s.fresh ELSE s.array

\* Writing v to the array `shuffled` refers to
WriteShuffled(s, v) ==
    IF s.ref = "fresh" THEN [s EXCEPT !.fresh = v] ELSE [s EXCEPT !.array = v]

\* const shuffled = [...array]: a new array with the same elements
CopyArray(s) ==
    [s EXCEPT !.fresh = s.array, !.ref = "fresh", !.i = Len(s.array) - 1,
              !.pc = "loop"]

\* the loop body, d being the call random()
SwapDrawn(s, d) ==
    [WriteShuffled(s, Swap(Shuffled(s), s.i, Scale(d.u, s.i + 1)))
        EXCEPT !.i = s.i - 1, !.random = d.next]

ShuffleCopy ==
    /\ sh.pc = "copy"
    /\ sh' = CopyArray(sh)
    /\ UNCHANGED <<data, lastOp, call, rows, store, io, page>>

ShuffleIterate ==
    /\ sh.pc = "loop"
    /\ sh.i > 0
    /\ sh' = SwapDrawn(sh, Draw(sh.random))
    /\ UNCHANGED <<data, lastOp, call, rows, store, io, page>>

ShuffleReturn ==
    /\ sh.pc = "loop"
    /\ ~(sh.i > 0)
    /\ sh' = [sh EXCEPT !.pc = "done", !.returned = Shuffled(sh)]
    /\ UNCHANGED <<data, lastOp, call, rows, store, io, page>>

NextShuffle == ShuffleCopy \/ ShuffleIterate \/ ShuffleReturn

SpecShuffle == InitShuffle /\ [][NextShuffle]_vars

\* ------------------------------------------------------------ one export
\* Clock readings at which the schedules exported were generated
ExportClocks == {1700000000 + 86400 * k : k \in 0..(MaxClockSamples - 1)}

GeneratedSchedules ==
    {generateExperimentData(n, now, now) : n \in 1..MaxParticipants, now \in ExportClocks}

\* The schedules exported: generated ones and ones edited since
ExportSchedules ==
    GeneratedSchedules \cup {removeParticipant(g, 1) : g \in GeneratedSchedules}

InitExport ==
    /\ data \in ExportSchedules
    /\ lastOp = NoOp
    /\ call = Null
    /\ sh = Null
    /\ rows = Null
    /\ store = Null
    /\ io = Null
    /\ page = Null

\* handleExportCSV calls flattenForExcel(data)
FlattenStart ==
    /\ rows = Null
    /\ rows' = flattenForExcel(data)
    /\ UNCHANGED <<data, lastOp, call, sh, store, io, page>>

\* for (const participant of data.participants) { ... }
FlattenLoop ==
    /\ rows # Null
    /\ rows.pc = "loop"
    /\ rows.next <= Len(data.participants)
    /\ rows' = FlattenNext(rows, data.participants)
    /\ UNCHANGED <<data, lastOp, call, sh, store, io, page>>

\* return rows
FlattenReturn ==
    /\ rows # Null
    /\ rows.pc = "loop"
    /\ ~(rows.next <= Len(data.participants))
    /\ rows' = [rows EXCEPT !.pc = "returned"]
    /\ UNCHANGED <<data, lastOp, call, sh, store, io, page>>

NextExport == FlattenStart \/ FlattenLoop \/ FlattenReturn

SpecExport == InitExport /\ [][NextExport]_vars

\* ------------------------------------------------------------ persistence calls
\* The schedules stored: one with a participant and one emptied by removal
ScheduleA == generateExperimentData(1, 1700000000, 1700000000)

ScheduleB == removeParticipant(generateExperimentData(1, 1700086400, 1700086400), 1)

PersistSchedules == {ScheduleA, ScheduleB}

Outcomes == {"resolved", "rejected", "timeout"}

InitPersist ==
    /\ data = Null
    /\ lastOp = NoOp
    /\ call = Null
    /\ sh = Null
    /\ rows = Null
    /\ page = Null
    /\ store \in [remote : {Null, ScheduleB},
                  local : {Null, EmptyText, NotJSON, JSONStringify(ScheduleA)},
                  inflight : {<<>>}]
    /\ io = NoCall

\* No call is running: the last one returned or threw
Settled(c) == c.pc \in {"idle", "returned", "threw"}

SaveCall ==
    /\ Settled(io)
    /\ io.n < MaxPersistCalls
    /\ \E d \in PersistSchedules : io' = saveToFirestore(io, d)
    /\ UNCHANGED <<data, lastOp, call, sh, rows, store, page>>

\* The race of the await ends. The client commits the writes in the order
\* issued: a write is not acknowledged while an older one is in flight.
SaveAwaitEnds ==
    /\ io.fn = "save"
    /\ io.pc = "await"
    /\ \E outcome \in Outcomes :
        /\ outcome = "resolved" => store.inflight = <<>>
        /\ io' = SaveAwaited(io, outcome)
        /\ store' = RemoteAfterSave(store, io, outcome)
    /\ UNCHANGED <<data, lastOp, call, sh, rows, page>>

SaveTryLocal ==
    /\ io.fn = "save"
    /\ io.pc = "try"
    /\ io' = SaveTry(store, io).call
    /\ store' = SaveTry(store, io).store
    /\ UNCHANGED <<data, lastOp, call, sh, rows, page>>

SaveCatchLocal ==
    /\ io.fn = "save"
    /\ io.pc = "catch"
    /\ io' = SaveCatch(store, io).call
    /\ store' = SaveCatch(store, io).store
    /\ UNCHANGED <<data, lastOp, call, sh, rows, page>>

SaveThrows ==
    /\ io.fn = "save"
    /\ io.pc = "rethrow"
    /\ io' = SaveRethrow(io)
    /\ UNCHANGED <<data, lastOp, call, sh, rows, store, page>>

\* A write whose caller gave up reaches the remote store, or fails
LateWrite ==
    /\ store.inflight # <<>>
    /\ \/ store' = [store EXCEPT !.remote = Head(store.inflight), !.inflight = Tail(@)]
       \/ store' = [store EXCEPT !.inflight = Tail(@)]
    /\ UNCHANGED <<data, lastOp, call, sh, rows, io, page>>

LoadCall ==
    /\ Settled(io)
    /\ io.n < MaxPersistCalls
    /\ io' = loadFromFirestore(io)
    /\ UNCHANGED <<data, lastOp, call, sh, rows, store, page>>

LoadAwaitEnds ==
    /\ io.fn = "load"
    /\ io.pc = "await"
    /\ \E outcome \in Outcomes : io' = LoadAwaited(io, outcome, store.remote)
    /\ UNCHANGED <<data, lastOp, call, sh, rows, store, page>>

LoadCopies ==
    /\ io.fn = "load"
    /\ io.pc = "copy"
    /\ io' = LoadCopy(store, io).call
    /\ store' = LoadCopy(store, io).store
    /\ UNCHANGED <<data, lastOp, call, sh, rows, page>>

LoadFallsBack ==
    /\ io.fn = "load"
    /\ io.pc = "fallback"
    /\ io' = LoadCaught(io, loadFromLocalStorage(store))
    /\ UNCHANGED <<data, lastOp, call, sh, rows, store, page>>

LocalLoadCall ==
    /\ Settled(io)
    /\ io.n < MaxPersistCalls
    /\ io' = LocalLoaded(io, loadFromLocalStorage(store))
    /\ UNCHANGED <<data, lastOp, call, sh, rows, store, page>>

NextPersist ==
    \/ SaveCall \/ SaveAwaitEnds \/ SaveTryLocal \/ SaveCatchLocal \/ SaveThrows
    \/ LateWrite
    \/ LoadCall \/ LoadAwaitEnds \/ LoadCopies \/ LoadFallsBack
    \/ LocalLoadCall

SpecPersist == InitPersist /\ [][NextPersist]_vars

\* ------------------------------------------------------------ the page at work
EnvPasswords == {"", "letmein"}

PasswordInputs == {"", "letmein", "hamsandwich1943", "hamsandwich"}

\* Texts typed into the form: 1, 2.9, -0, 51, nothing, abc
FormInputs ==
    {<<"1">>, <<"2", ".", "9">>, <<"-", "0">>, <<"5", "1">>, <<>>, <<"a", "b", "c">>}

\* What the persistence layer can give back at the load
FirestoreAnswers ==
    {[result |-> Null, raised |-> ""], [result |-> ScheduleA, raised |-> ""],
     [result |-> Null, raised |-> "unexpected"]}

LocalAnswers == {[result |-> Null, raised |-> ""], [result |-> ScheduleB, raised |-> ""]}

InitPage ==
    /\ data = Null
    /\ lastOp = NoOp
    /\ call = Null
    /\ sh = Null
    /\ rows = Null
    /\ store = Null
    /\ io = Null
    /\ page \in {Home(env) : env \in EnvPasswords}

\* The main content is rendered: authenticated, not loading the data, and the
\* effects of the last render have run
MainContent == page.isAuthenticated /\ ~page.isDataLoading /\ ~page.effect

\* The login form is submitted with a text typed
Login ==
    /\ ~page.isAuthenticated
    /\ ~page.effect
    /\ \E password \in PasswordInputs : page' = handleLogin(page, password)
    /\ UNCHANGED <<data, lastOp, call, sh, rows, store, io>>

\* loadData goes on after its await
LoadSettles ==
    /\ page.isDataLoading
    /\ ~page.effect
    /\ \E fromFirestore \in FirestoreAnswers, fromLocal \in LocalAnswers :
        /\ data' = IF LoadedData(fromFirestore, fromLocal) # Null
                   THEN LoadedData(fromFirestore, fromLocal) ELSE data
        /\ page' = [page EXCEPT !.isDataLoading = FALSE,
                                !.effect = LoadedData(fromFirestore, fromLocal) # Null,
                                !.event = "loaded"]
    /\ UNCHANGED <<lastOp, call, sh, rows, store, io>>

\* useEffect(..., [experimentData, isAuthenticated]) runs after the render
SaveEffect ==
    /\ page.effect
    /\ page' = [page EXCEPT !.effect = FALSE,
                            !.handed = IF EffectSaves(page.isAuthenticated, data)
                                       THEN data ELSE @]
    /\ UNCHANGED <<data, lastOp, call, sh, rows, store, io>>

\* The form is submitted with a text typed (the button is disabled while
\* isLoading)
Submit ==
    /\ MainContent
    /\ ~page.isLoading
    /\ \E inputValue \in FormInputs : page' = handleSubmit(page, inputValue)
    /\ UNCHANGED <<data, lastOp, call, sh, rows, store, io>>

\* The callback of setTimeout(..., 100) in handleGenerate
TimerFires ==
    /\ page.timer # 0
    /\ ~page.effect
    /\ \E now \in ClockReadings :
        /\ data' = CaughtGenerate(data, GenerateResults[<<page.timer, now>>])
        /\ page' = [page EXCEPT !.timer = 0, !.isLoading = FALSE,
                       !.effect = "threw" \notin DOMAIN GenerateResults[<<page.timer, now>>],
                       !.event = "generate"]
    /\ UNCHANGED <<lastOp, call, sh, rows, store, io>>

\* The Add button is disabled from 50 participants on
PageAdd ==
    /\ MainContent
    /\ data # Null
    /\ ~AddDisabled(data)
    /\ Len(data.participants) < MaxPageParticipants
    /\ \E seed \in AmbientSeeds : data' = addParticipant(data, seed)
    /\ page' = [page EXCEPT !.effect = TRUE, !.event = "add"]
    /\ UNCHANGED <<lastOp, call, sh, rows, store, io>>

\* onRemove of the card of a participant
PageRemove ==
    /\ MainContent
    /\ data # Null
    /\ \E k \in 1..Len(data.participants) :
        data' = removeParticipant(data, data.participants[k].recordId)
    /\ page' = [page EXCEPT !.effect = TRUE, !.event = "remove"]
    /\ UNCHANGED <<lastOp, call, sh, rows, store, io>>

\* onRegenerate of the card of a participant
PageRegenerate ==
    /\ MainContent
    /\ data # Null
    /\ \E k \in 1..Len(data.participants), seed \in AmbientSeeds :
        data' = regenerateParticipant(data, data.participants[k].recordId, seed)
    /\ page' = [page EXCEPT !.effect = TRUE, !.event = "regenerate"]
    /\ UNCHANGED <<lastOp, call, sh, rows, store, io>>

\* handleClear up to its await of clearFirestore()
ClearStarts ==
    /\ MainContent
    /\ data # Null
    /\ ~page.clearing
    /\ page' = [page EXCEPT !.clearing = TRUE, !.event = "clear"]
    /\ UNCHANGED <<data, lastOp, call, sh, rows, store, io>>

\* handleClear after the await: setExperimentData(null)
ClearSettles ==
    /\ page.clearing
    /\ ~page.effect
    /\ data' = Null
    /\ page' = [page EXCEPT !.clearing = FALSE, !.effect = data # Null,
                            !.event = "cleared"]
    /\ UNCHANGED <<lastOp, call, sh, rows, store, io>>

NextPage ==
    \/ Login \/ LoadSettles \/ SaveEffect \/ Submit \/ TimerFires
    \/ PageAdd \/ PageRemove \/ PageRegenerate \/ ClearStarts \/ ClearSettles

SpecPage == InitPage /\ [][NextPage]_vars

\* The effects of a render run before anything else the page does
SpecPageLive == SpecPage /\ WF_vars(SaveEffect)

\* ------------------------------------------------------------ stores in flight at work
\* The page is authenticated and holds no schedule; io lists the calls of
\* saveToFirestore in the order started, store.inflight the writes the client
\* has not settled, in the order issued. page: the schedule handed over last,
\* the state of handleClear, the stores started since a clear began.
InitRace ==
    /\ data = Null
    /\ lastOp = NoOp
    /\ call = Null
    /\ sh = Null
    /\ rows = Null
    /\ store = [remote |-> Null, local |-> Null, inflight |-> <<>>]
    /\ io = <<>>
    /\ page = [last |-> Null, clearing |-> FALSE, cleared |-> FALSE,
               deleted |-> FALSE, sinceClear |-> 0]

\* The page comes to hold another schedule and the save effect starts
\* saveToFirestore on it, without a look at the calls still running
RaceStore ==
    /\ Len(io) < MaxPersistCalls
    /\ \E d \in PersistSchedules :
        /\ d # data
        /\ data' = d
        /\ io' = Append(io, saveToFirestore([NoCall EXCEPT !.n = Len(io)], d))
        /\ store' = [store EXCEPT
                        !.inflight = Append(@, PendingWrite("set", d, Len(io) + 1))]
        /\ page' = [page EXCEPT !.last = d,
                       !.sinceClear = IF page.clearing \/ page.cleared THEN @ + 1 ELSE @]
    /\ UNCHANGED <<lastOp, call, sh, rows>>

\* The io after the call number k went on from its await, and the store
AfterContinuation(k, r) ==
    /\ io' = [io EXCEPT ![k] = r.call]
    /\ store' = r.store

\* handleClear goes on after clearFirestore: setExperimentData(null)
AfterClear(st, deleted) ==
    /\ store' = ClearContinues(st)
    /\ data' = Null
    /\ page' = [page EXCEPT !.clearing = FALSE, !.cleared = TRUE, !.deleted = deleted]
    /\ UNCHANGED io

\* The oldest write is committed: the client commits the writes in the order
\* issued. Its caller, if it still waits, goes on.
RaceCommit ==
    /\ store.inflight # <<>>
    /\ IF Head(store.inflight).op = "delete"
       THEN AfterClear(Committed([store EXCEPT !.inflight = Tail(@)],
                                 Head(store.inflight)), TRUE)
       ELSE /\ IF io[Head(store.inflight).owner].pc = "await"
               THEN AfterContinuation(Head(store.inflight).owner,
                        SaveContinues(Committed([store EXCEPT !.inflight = Tail(@)],
                                                Head(store.inflight)),
                                      io[Head(store.inflight).owner], "resolved"))
               ELSE /\ store' = Committed([store EXCEPT !.inflight = Tail(@)],
                                          Head(store.inflight))
                    /\ UNCHANGED io
            /\ UNCHANGED <<data, page>>
    /\ UNCHANGED <<lastOp, call, sh, rows>>

\* A write fails, whatever its place among the writes: its promise is
\* rejected and its caller, if it still waits, goes on in its catch
RaceWriteFails ==
    /\ \E i \in 1..Len(store.inflight) :
        IF store.inflight[i].op = "delete"
        THEN AfterClear([store EXCEPT !.inflight = RemoveAt(@, i)], FALSE)
        ELSE /\ IF io[store.inflight[i].owner].pc = "await"
                THEN AfterContinuation(store.inflight[i].owner,
                         SaveContinues([store EXCEPT !.inflight = RemoveAt(@, i)],
                                       io[store.inflight[i].owner], "rejected"))
                ELSE /\ store' = [store EXCEPT !.inflight = RemoveAt(@, i)]
                     /\ UNCHANGED io
             /\ UNCHANGED <<data, page>>
    /\ UNCHANGED <<lastOp, call, sh, rows>>

\* The 10-second timer of a call fires while its write is not settled; the
\* timers fire in the order the calls were started. The write stays with the
\* client.
RaceTimeout ==
    /\ \E k \in 1..Len(io) :
        /\ io[k].pc = "await"
        /\ \A m \in 1..(k - 1) : io[m].pc # "await"
        /\ AfterContinuation(k, SaveContinues(store, io[k], "timeout"))
    /\ UNCHANGED <<data, lastOp, call, sh, rows, page>>

\* handleClear up to the await inside clearFirestore: deleteDoc is issued
RaceClearStarts ==
    /\ data # Null
    /\ ~page.clearing
    /\ ~page.cleared
    /\ store' = [store EXCEPT !.inflight = Append(@, PendingWrite("delete", Null, 0))]
    /\ page' = [page EXCEPT !.clearing = TRUE]
    /\ UNCHANGED <<data, lastOp, call, sh, rows, io>>

NextRace == RaceStore \/ RaceCommit \/ RaceWriteFails \/ RaceTimeout \/ RaceClearStarts

SpecRace == InitRace /\ [][NextRace]_vars

\* ------------------------------------------------------------ the count of participants at work
\* Texts typed into the form: 1, 49, 50, and the rejected 0 and 51
CapInputs == {<<"1">>, <<"4", "9">>, <<"5", "0">>, <<"0">>, <<"5", "1">>}

\* The schedules handleGenerate sets for the counts the form lets through
CapResults ==
    [n \in {parseInt(t).value : t \in {u \in CapInputs : isValidNumber(parseInt(u))}} |->
        generateExperimentData(n, 1700000000, 1700000000)]

\* The cards whose buttons are pressed: the first and the last participant
CapCards(d) == {k \in {1, Len(d.participants)} : k >= 1}

\* The main content with no schedule; lastOp.n counts the changes made with
\* the buttons since the schedule was generated
InitCap ==
    /\ data = Null
    /\ lastOp = [op |-> "init", n |-> 0]
    /\ call = Null
    /\ sh = Null
    /\ rows = Null
    /\ store = Null
    /\ io = Null
    /\ page = [Home("letmein") EXCEPT !.isAuthenticated = TRUE, !.event = "load"]

\* The form is submitted with a text typed
CapSubmit ==
    /\ data = Null
    /\ page.timer = 0
    /\ \E inputValue \in CapInputs : page' = handleSubmit(page, inputValue)
    /\ UNCHANGED <<data, lastOp, call, sh, rows, store, io>>

\* The callback of setTimeout(..., 100) in handleGenerate
CapTimerFires ==
    /\ page.timer # 0
    /\ data' = CaughtGenerate(data, CapResults[page.timer])
    /\ page' = [page EXCEPT !.timer = 0, !.isLoading = FALSE, !.event = "generate"]
    /\ UNCHANGED <<lastOp, call, sh, rows, store, io>>

\* Add Participant is pressed; the button takes no press while disabled
CapAdd ==
    /\ data # Null
    /\ lastOp.n < MaxUiSteps
    /\ ~AddDisabled(data)
    /\ \E seed \in AmbientSeeds : data' = addParticipant(data, seed)
    /\ lastOp' = [op |-> "add", n |-> lastOp.n + 1]
    /\ page' = [page EXCEPT !.event = "add"]
    /\ UNCHANGED <<call, sh, rows, store, io>>

\* onRemove of a card
CapRemove ==
    /\ data # Null
    /\ lastOp.n < MaxUiSteps
    /\ \E k \in CapCards(data) :
        data' = removeParticipant(data, data.participants[k].recordId)
    /\ lastOp' = [op |-> "remove", n |-> lastOp.n + 1]
    /\ page' = [page EXCEPT !.event = "remove"]
    /\ UNCHANGED <<call, sh, rows, store, io>>

\* onRegenerate of a card
CapRegenerate ==
    /\ data # Null
    /\ lastOp.n < MaxUiSteps
    /\ \E k \in CapCards(data), seed \in AmbientSeeds :
        data' = regenerateParticipant(data, data.participants[k].recordId, seed)
    /\ lastOp' = [op |-> "regenerate", n |-> lastOp.n + 1]
    /\ page' = [page EXCEPT !.event = "regenerate"]
    /\ UNCHANGED <<call, sh, rows, store, io>>

NextCap == CapSubmit \/ CapTimerFires \/ CapAdd \/ CapRemove \/ CapRegenerate

SpecCap == InitCap /\ [][NextCap]_vars

\* ------------------------------------------------------------ vocabulary of the properties
Range(q) == {q[k] : k \in 1..Len(q)}

Count(q, e) == Cardinality({k \in 1..Len(q) : q[k] = e})

\* a and b hold the same elements the same number of times
SameMultiset(a, b) ==
    /\ Len(a) = Len(b)
    /\ \A e \in Range(a) \cup Range(b) : Count(a, e) = Count(b, e)

ModelBlocks(mb) == {mb.ballBlock, mb.balloonBlock}

\* The model ids of repetition r of a block, in the order emitted
IsRep(m, r) == m.repetition = r

ModelIdsOf(ms) == [k \in 1..Len(ms) |-> ms[k].modelId]

RepIds(blk, r) ==
    ModelIdsOf(SelectSeq(blk.measurements, LAMBDA m : IsRep(m, r)))

\* The ids assigned to a block's type in session s
AssignedOrder(s, blk) ==
    IF blk.modelType = "ball" THEN s.ballSphereOrder ELSE s.balloonPointOrder

ActualMeasurements(s) ==
    LET perBlock == [k \in 1..Len(s.modalities) |->
                        Len(s.modalities[k].ballBlock.measurements)
                        + Len(s.modalities[k].balloonBlock.measurements)]
        RECURSIVE Sum(_)
        Sum(k) == IF k = 0 THEN 0 ELSE perBlock[k] + Sum(k - 1)
    IN  Sum(Len(s.modalities))

Assigned == call # Null /\ call.result # Null

\* The draws the call has made when generateSession starts: layers 1 to 4
DrawsBeforeSession(randomSeed) ==
    shuffleArray(<<"P1", "P2", "P3", "P4">>,
        generateUniquePressures(
            shuffleArray(MapId(BALL_SPHERES),
                shuffleArray(<<"ball", "balloon">>,
                    shuffleArray(<<"ultrasound", "palpation">>,
                        createSeededRandom(randomSeed)).random).random).random
        ).random).random.n

SameScheduleAs(q, p, b) ==
    /\ q.sessions = p.sessions
    /\ q.randomSeed = p.randomSeed
    /\ q.recordId = b

\* C2: the sessions depend on the seed alone: for the seed of the participant
\* returned and every record id b, generateParticipantRandomization(b, seed)
\* has the same sessions and seed and differs only in recordId = b, whatever
\* the number of calls made before.
C2_SeedAlone ==
    Assigned =>
        /\ call.result.recordId = call.recordId
        /\ \A b \in 1..(MaxRecordId + 1) :
            SameScheduleAs(generateParticipantRandomization(b, call.randomSeed),
                           call.result, b)

C2_Witness ==
    Assigned /\ call.calls = MaxCalls /\ call.recordId = MaxRecordId
    /\ call.result.recordId = MaxRecordId

\* ------------------------------------------------------------ C3
SessionHas80(s) ==
    /\ Len(s.modalities) = 2
    /\ \A k \in 1..Len(s.modalities) :
        \A blk \in ModelBlocks(s.modalities[k]) : Len(blk.measurements) = 20
    /\ ActualMeasurements(s) = 80
    /\ s.totalMeasurements = ActualMeasurements(s)

\* C3: after generateExperimentData(N) with N >= 1 the schedule has exactly N
\* participants, each with 3 sessions of 80 measurements actually present
\* (2 modality blocks x 2 model-type blocks x 20, equal to the totalMeasurements
\* field), and summary.totalMeasurements = 240 * N.
C3_GeneratedShape ==
    (lastOp.op = "generate" /\ lastOp.id >= 1) =>
        /\ Len(data.participants) = lastOp.id
        /\ \A k \in 1..Len(data.participants) :
            /\ Len(data.participants[k].sessions) = 3
            /\ \A n \in 1..3 : SessionHas80(data.participants[k].sessions[n])
        /\ data.summary.totalMeasurements = 240 * lastOp.id

C3_Witness ==
    /\ lastOp.op = "generate"
    /\ lastOp.id = MaxParticipants
    /\ Len(data.participants) = MaxParticipants
    /\ data.summary.totalMeasurements = 240 * MaxParticipants

\* ------------------------------------------------------------ C4
\* C4: the three sessions of a participant carry sessionNumber 1, 2, 3 in this
\* order and are equal in every other field, and the call draws nothing after
\* the one session is built (the 30 draws of its two palpation blocks are the
\* last ones).
C4_SessionsCopied ==
    Assigned =>
        /\ Len(call.result.sessions) = 3
        /\ \A k \in 1..3 :
            /\ call.result.sessions[k].sessionNumber = k
            /\ [call.result.sessions[k] EXCEPT !.sessionNumber = 1]
                   = call.result.sessions[1]
        /\ AssignFrom(call.recordId, call.randomSeed,
                      createSeededRandom(call.randomSeed)).random.n
               = DrawsBeforeSession(call.randomSeed) + 30

C4_Witness ==
    /\ Assigned
    /\ call.result.sessions[3].sessionNumber = 3
    /\ call.result.sessions[3].modalities = call.result.sessions[1].modalities
    /\ \E k \in 1..2 :
        /\ call.result.sessions[1].modalities[k].modality = "palpation"
        /\ RepIds(call.result.sessions[1].modalities[k].ballBlock, 2)
               # RepIds(call.result.sessions[1].modalities[k].ballBlock, 1)

\* ------------------------------------------------------------ C5
FixedOrder(s, blk) ==
    /\ RepIds(blk, 1) = AssignedOrder(s, blk)
    /\ \A r \in 2..5 : RepIds(blk, r) = RepIds(blk, 1)

\* C5: in every ultrasound modality block, for the ball and the balloon block,
\* the model ids of repetition 1 are the assigned order of that type and the
\* ids of repetitions 2 to 5 equal those of repetition 1.
C5_UltrasoundFixed ==
    Assigned =>
        \A n \in 1..3 : \A k \in 1..Len(call.result.sessions[n].modalities) :
            call.result.sessions[n].modalities[k].modality = "ultrasound" =>
                \A blk \in ModelBlocks(call.result.sessions[n].modalities[k]) :
                    FixedOrder(call.result.sessions[n], blk)

\* ultrasound comes second, after a palpation block whose repetitions differ
C5_Witness ==
    /\ Assigned
    /\ call.result.sessions[1].modalities[2].modality = "ultrasound"
    /\ RepIds(call.result.sessions[1].modalities[2].balloonBlock, 5)
           = call.result.sessions[1].balloonPointOrder
    /\ ~FixedOrder(call.result.sessions[1],
                   call.result.sessions[1].modalities[1].balloonBlock)

\* ------------------------------------------------------------ C6
CycleShape(blk) ==
    /\ Len(blk.measurements) = 20
    /\ \A k \in 1..Len(blk.measurements) :
        /\ blk.measurements[k].repetition = ((k - 1) \div 4) + 1
        /\ blk.measurements[k].modelOrder = ((k - 1) % 4) + 1
    /\ \A r \in 1..5 :
        /\ Len(RepIds(blk, r)) = 4
        /\ SameMultiset(RepIds(blk, r), MapId(blk.models))
        /\ Cardinality(Range(RepIds(blk, r))) = 4

\* C6: every model-type block of every modality has 20 measurements, emitted
\* in ascending (repetition, position) order with positions 1..4 in each of
\* the repetitions 1..5, and the ids of one repetition are the 4 ids assigned
\* to the block, each once.
C6_CyclePermutation ==
    Assigned =>
        \A n \in 1..3 : \A k \in 1..Len(call.result.sessions[n].modalities) :
            \A blk \in ModelBlocks(call.result.sessions[n].modalities[k]) :
                /\ CycleShape(blk)
                /\ MapId(blk.models) = AssignedOrder(call.result.sessions[n], blk)

C6_Witness ==
    /\ Assigned
    /\ \E k \in 1..2 :
        /\ call.result.sessions[1].modalities[k].modality = "palpation"
        /\ CycleShape(call.result.sessions[1].modalities[k].ballBlock)
        /\ RepIds(call.result.sessions[1].modalities[k].ballBlock, 1)
               # call.result.sessions[1].ballSphereOrder
        /\ CycleShape(call.result.sessions[1].modalities[3 - k].balloonBlock)

\* ------------------------------------------------------------ C7
\* C7: when shuffleArray returns, the array returned has the length and the
\* elements of the input, each as many times, it is a new array, and the
\* caller's array is what it was at the call; it is the array the operator
\* shuffleArray gives for that input and source.
C7_ShufflePermutes ==
    (sh # Null /\ sh.pc = "done") =>
        /\ SameMultiset(sh.returned, sh.input)
        /\ sh.array = sh.input
        /\ sh.ref = "fresh"
        /\ sh.returned = shuffleArray(sh.input, sh.source).shuffled

C7_Witness ==
    /\ sh # Null
    /\ sh.pc = "done"
    /\ Len(sh.input) = MaxLen
    /\ sh.returned # sh.input
    /\ sh.random.n = MaxLen - 1

\* ------------------------------------------------------------ C8
\* C8: in every schedule held, the record ids read in list order are
\* 1, 2, ..., participants.length; removing an existing participant from N
\* leaves N - 1 participants (with ids 1..N-1).
C8_ContiguousIds ==
    data # Null =>
        /\ \A k \in 1..Len(data.participants) : data.participants[k].recordId = k
        /\ (lastOp.op = "remove" /\ lastOp.id \in 1..lastOp.count) =>
               Len(data.participants) = lastOp.count - 1

C8_Witness ==
    /\ lastOp.op = "remove"
    /\ lastOp.id = 1
    /\ lastOp.count = MaxParticipants
    /\ Len(data.participants) = MaxParticipants - 1
    /\ data.participants[MaxParticipants - 1].recordId = MaxParticipants - 1

\* ------------------------------------------------------------ C9
SameAssignment(p, q) == p.randomSeed = q.randomSeed /\ p.sessions = q.sessions

\* Positions of d's participants with record id `id`
Holders(d, id) == {k \in 1..Len(d.participants) : d.participants[k].recordId = id}

\* e is d without position pos, the rest in order, renumbered by position
WithoutPosition(d, e, pos) ==
    /\ Len(e.participants) = Len(d.participants) - 1
    /\ \A k \in 1..Len(e.participants) :
        /\ SameAssignment(e.participants[k],
                          d.participants[IF k < pos THEN k ELSE k + 1])
        /\ e.participants[k].recordId = k

RemoveEffect(d, e, id) ==
    /\ e.generatedAt = d.generatedAt
    /\ Cardinality(Holders(d, id)) <= 1
    /\ \A pos \in Holders(d, id) : WithoutPosition(d, e, pos)
    /\ Holders(d, id) = {} =>
        /\ Len(e.participants) = Len(d.participants)
        /\ \A k \in 1..Len(e.participants) :
            /\ SameAssignment(e.participants[k], d.participants[k])
            /\ e.participants[k].recordId = k

\* C9: a step removeParticipant(data, id) removes exactly the participant with
\* record id id (none when there is none), keeps the others in order with
\* their seed and sessions, numbers them by position, and keeps generatedAt.
C9_RemoveFrame ==
    [][lastOp'.op = "remove" => RemoveEffect(data, data', lastOp'.id)]_vars

\* the middle one of three was removed; its neighbours remain, seeds intact
C9_Witness ==
    /\ lastOp.op = "remove"
    /\ lastOp.id = 2
    /\ lastOp.count = 3
    /\ Len(data.participants) = 2
    /\ data.participants[1].randomSeed # data.participants[2].randomSeed
    /\ data.participants[2].recordId = 2

\* ------------------------------------------------------------ C10
RegenerateEffect(d, e, id, seed) ==
    /\ e.generatedAt = d.generatedAt
    /\ e.summary = d.summary
    /\ Len(e.participants) = Len(d.participants)
    /\ \A k \in 1..Len(d.participants) :
        IF d.participants[k].recordId = id
        THEN /\ e.participants[k].recordId = id
             /\ e.participants[k].randomSeed = seed
             /\ e.participants[k] = generateParticipantRandomization(id, seed)
        ELSE e.participants[k] = d.participants[k]
    /\ Holders(d, id) = {} => e.participants = d.participants

\* C10: a step regenerateParticipant(data, id) puts, at the position of the
\* participant with record id id, the assignment of the fresh seed under the
\* same record id, and leaves every other participant, the participant count,
\* generatedAt and the summary as they were; with no such participant the
\* list is unchanged.
C10_RegenerateFrame ==
    [][lastOp'.op = "regenerate" =>
          RegenerateEffect(data, data', lastOp'.id, lastOp'.seed)]_vars

\* the second of three was regenerated: it has the fresh seed, the first not
C10_Witness ==
    /\ lastOp.op = "regenerate"
    /\ lastOp.id = 2
    /\ lastOp.count = 3
    /\ Len(data.participants) = 3
    /\ data.participants[2].randomSeed = lastOp.seed
    /\ data.participants[1].randomSeed # lastOp.seed
    /\ data.participants[3].randomSeed # lastOp.seed

\* ------------------------------------------------------------ C11
AddEffect(d, e, seed) ==
    /\ seed \in 0..999999
    /\ Len(e.participants) = Len(d.participants) + 1
    /\ \A k \in 1..Len(d.participants) : e.participants[k] = d.participants[k]
    /\ e.participants[Len(e.participants)].recordId = Len(d.participants) + 1
    /\ e.participants[Len(e.participants)]
           = generateParticipantRandomization(Len(d.participants) + 1, seed)
    /\ e.generatedAt = d.generatedAt

\* C11: a step addParticipant(data) lengthens the list by one participant, put
\* last, whose recordId is the previous count + 1 and which is the assignment
\* generateParticipantRandomization gives for a seed drawn in 0..999999; every
\* participant there before is unchanged and at its position.
C11_AddAppends ==
    [][lastOp'.op = "add" => AddEffect(data, data', lastOp'.seed)]_vars

\* a third participant was added behind two that were generated
C11_Witness ==
    /\ lastOp.op = "add"
    /\ lastOp.count = 2
    /\ Len(data.participants) = 3
    /\ data.participants[3].recordId = 3
    /\ data.participants[3].randomSeed = lastOp.seed
    /\ data.participants[1].randomSeed # lastOp.seed

\* ------------------------------------------------------------ C12
\* C12: in every schedule held, after generation and after every add, remove
\* and regenerate, summary.totalParticipants = participants.length,
\* measurementsPerSession = 80, measurementsPerParticipant = 240 and
\* totalMeasurements = 240 * participants.length.
C12_SummaryAgrees ==
    data # Null =>
        /\ data.summary.totalParticipants = Len(data.participants)
        /\ data.summary.measurementsPerSession = 80
        /\ data.summary.measurementsPerParticipant = 240
        /\ data.summary.totalMeasurements = 240 * Len(data.participants)

\* the last of the participants was removed: the summary counts zero
C12_Witness ==
    /\ lastOp.op = "remove"
    /\ lastOp.count = 1
    /\ lastOp.id = 1
    /\ data.participants = <<>>
    /\ data.summary.totalMeasurements = 0

\* ------------------------------------------------------------ C19
\* The measurements of d in export order: participants, their sessions, the
\* modality blocks, the two model-type blocks of each
MeasurementCount(d) ==
    LET perParticipant == [k \in 1..Len(d.participants) |->
            ActualMeasurements(d.participants[k].sessions[1])
            + ActualMeasurements(d.participants[k].sessions[2])
            + ActualMeasurements(d.participants[k].sessions[3])]
        RECURSIVE Sum(_)
        Sum(k) == IF k = 0 THEN 0 ELSE perParticipant[k] + Sum(k - 1)
    IN  Sum(Len(d.participants))

\* C19: flattenForExcel returns one row per measurement of every block of
\* every session of every participant, 240 * participants.length rows for the
\* schedules generated and edited, and the row at position k has
\* measurementNumber = k, counted through the whole export.
C19_OneRowPerMeasurement ==
    (rows # Null /\ rows.pc = "returned") =>
        /\ Len(rows.rows) = MeasurementCount(data)
        /\ Len(rows.rows) = 240 * Len(data.participants)
        /\ \A k \in 1..Len(rows.rows) : rows.rows[k].measurementNumber = k
        /\ \A p \in 1..Len(data.participants) :
            \A k \in (240 * (p - 1) + 1)..(240 * p) :
                rows.rows[k].participantId = data.participants[p].recordId

\* the export of two participants or more: row 241 is the second one's first
C19_Witness ==
    /\ rows # Null
    /\ rows.pc = "returned"
    /\ Len(data.participants) >= 2
    /\ Len(rows.rows) >= 480
    /\ rows.rows[241].measurementNumber = 241
    /\ rows.rows[241].participantId = 2
    /\ rows.rows[241].session = 1

\* ------------------------------------------------------------ C14
\* C14: when saveToFirestore(data) has returned (its remote write won the race
\* against the timer), the local store holds the text of data, written by
\* this call before it returned, and the remote document is data: the two
\* copies are the same schedule.
C14_SaveWritesBoth ==
    (io # Null /\ io.fn = "save" /\ io.pc = "returned") =>
        /\ io.error = ""
        /\ store.remote = io.arg
        /\ store.local = JSONStringify(io.arg)
        /\ loadFromLocalStorage(store).result = store.remote

\* the emptied schedule was stored: no initial store holds it
C14_Witness ==
    /\ io # Null
    /\ io.fn = "save"
    /\ io.pc = "returned"
    /\ io.arg = ScheduleB
    /\ store.remote = ScheduleB
    /\ store.local = JSONStringify(ScheduleB)
    /\ io.n = MaxPersistCalls

\* ------------------------------------------------------------ C15
OriginalErrors == {"setDoc failed", "Firestore save timeout after 10s"}

\* C15: when the remote write of saveToFirestore(data) failed or lost to the
\* 10-second timer, the call ends by raising that error and never returns
\* normally, and at the moment it raises (and from the statement before the
\* throw on) the local store holds the text of data.
C15_SaveFallsBackThenThrows ==
    (io # Null /\ io.fn = "save") =>
        /\ io.pc \in {"catch", "rethrow", "threw"} => io.error \in OriginalErrors
        /\ io.pc \in {"try", "returned"} => io.error = ""
        /\ io.pc \in {"rethrow", "threw"} =>
            /\ store.local = JSONStringify(io.arg)
            /\ loadFromLocalStorage(store).result = io.arg

\* the timer won: the error is raised, the local copy is there, the remote
\* write is still in flight
C15_Witness ==
    /\ io # Null
    /\ io.fn = "save"
    /\ io.pc = "threw"
    /\ io.error = "Firestore save timeout after 10s"
    /\ io.arg = ScheduleA
    /\ store.local = JSONStringify(ScheduleA)
    /\ store.remote # ScheduleA
    /\ store.inflight = <<ScheduleA>>

\* ------------------------------------------------------------ C16
\* C16: loadFromFirestore never raises. Having returned after a remote read
\* that gave a document, it returns that document and the local store holds
\* its text; having returned after a remote read that failed or lost to the
\* 10-second timer, it returns what loadFromLocalStorage gives (the schedule
\* stored, or null).
C16_LoadNeverRaises ==
    (io # Null /\ io.fn = "load") =>
        /\ io.pc # "threw"
        /\ (io.pc = "returned" /\ io.doc # Null) =>
            /\ io.error = ""
            /\ io.result = io.doc
            /\ store.local = JSONStringify(io.doc)
        /\ (io.pc = "returned" /\ io.error # "") =>
            /\ io.doc = Null
            /\ io.result = loadFromLocalStorage(store).result

\* the read timed out and the schedule of the local store came back
C16_Witness ==
    /\ io # Null
    /\ io.fn = "load"
    /\ io.pc = "returned"
    /\ io.error = "Firestore timeout after 10s"
    /\ io.result = ScheduleA
    /\ store.local = JSONStringify(ScheduleA)

\* ------------------------------------------------------------ C17
\* C17: a call of loadFromLocalStorage returns and does not raise; with a text
\* in the store that is no JSON it returns null, as it does with nothing
\* stored, and the text stays in the store.
C17_CorruptIsAbsent ==
    (io # Null /\ io.fn = "loadLocal") =>
        /\ io.pc = "returned"
        /\ io.error = ""
        /\ store.local \in {Null, EmptyText, NotJSON} => io.result = Null
        /\ store.local \notin {Null, EmptyText, NotJSON} =>
               JSONStringify(io.result) = store.local

C17_Witness ==
    /\ io # Null
    /\ io.fn = "loadLocal"
    /\ io.pc = "returned"
    /\ store.local = NotJSON
    /\ io.result = Null

\* ------------------------------------------------------------ C13
\* The count a text of the form asks for lies outside 1..50, or is no number
OutsideRange(inputValue) ==
    parseInt(inputValue).nan \/ parseInt(inputValue).value \notin 1..50

\* C13: a submission of the form whose count lies outside 1..50 is rejected:
\* the form shows a validation message, no generation is started, no
\* participant is generated and the schedule stays as it was; a generation is
\* only ever started with a count from 1 to 50, and the generator asked for no
\* participant raises instead of returning a schedule.
C13_InvalidCountRejected ==
    [][/\ page'.timer \in 0..50
       /\ \A now \in ClockReadings : "threw" \in DOMAIN GenerateResults[<<0, now>>]
       /\ (page'.event = "submit" /\ OutsideRange(page'.inputValue)) =>
            /\ getValidationMessage(page'.inputValue, parseInt(page'.inputValue)) # ""
            /\ page'.timer = page.timer
            /\ page'.isLoading = page.isLoading
            /\ page'.effect = page.effect
            /\ data' = data]_vars

\* 51 was submitted over a schedule of two participants and nothing started
C13_Witness ==
    /\ page # Null
    /\ page.event = "submit"
    /\ parseInt(page.inputValue) = [nan |-> FALSE, value |-> 51]
    /\ page.timer = 0
    /\ ~page.isLoading
    /\ data # Null
    /\ Len(data.participants) = 2

\* ------------------------------------------------------------ C18
\* C18: every step that gives the page a new schedule (load, generate, add,
\* remove, regenerate) schedules the save effect; once the effect has run the
\* schedule last handed to saveToFirestore is the schedule the page holds,
\* whole; and the effect of a schedule the page holds does run.
C18_MutationsStored ==
    /\ []((page.isAuthenticated /\ ~page.effect /\ data # Null) => page.handed = data)
    /\ [][(data' # data /\ data' # Null) => (page'.effect /\ page'.isAuthenticated)]_vars
    /\ ((page.effect /\ data # Null) ~> (~page.effect /\ page.handed = data))

\* a regenerated schedule of two participants has been handed over
C18_Witness ==
    /\ page # Null
    /\ page.event = "regenerate"
    /\ ~page.effect
    /\ data # Null
    /\ Len(data.participants) = 2
    /\ page.handed = data

\* ------------------------------------------------------------ C20
\* C20: the page goes from unauthenticated to authenticated only in a step of
\* the login form whose input is the shared secret; a submission of the login
\* form with another input leaves it unauthenticated; and while it is
\* unauthenticated no load has been started, nothing has been handed to
\* saveToFirestore, no generation or clearing is under way and it holds no
\* schedule.
C20_LoginGuardsAll ==
    /\ [](~page.isAuthenticated =>
            /\ page.loads = 0
            /\ ~page.isDataLoading
            /\ page.handed = Null
            /\ page.timer = 0
            /\ ~page.clearing
            /\ data = Null)
    /\ [][/\ (~page.isAuthenticated /\ page'.isAuthenticated) =>
                (page'.event = "login" /\ page'.password = SITE_PASSWORD(page.env))
          /\ (~page.isAuthenticated /\ page'.event = "login"
                /\ page'.password # SITE_PASSWORD(page.env)) =>
                (~page'.isAuthenticated /\ page'.authError = "Incorrect password"
                   /\ data' = data /\ page'.loads = page.loads)
          /\ page.isAuthenticated => page'.isAuthenticated]_vars

\* the empty text was refused where the secret is the built-in one
C20_Witness ==
    /\ page # Null
    /\ page.env = ""
    /\ page.event = "login"
    /\ page.password = ""
    /\ ~page.isAuthenticated
    /\ page.authError = "Incorrect password"

\* the configured secret was typed and the load started
C20_WitnessAccepted ==
    /\ page # Null
    /\ page.env = "letmein"
    /\ page.event = "login"
    /\ page.password = "letmein"
    /\ page.isAuthenticated
    /\ page.loads = 1

\* ------------------------------------------------------------ C21
LayerOrder == <<"modalities", "modelTypes", "ballSphereOrder", "pressures", "balloonIds">>

InLayers == call # Null /\ "trace" \in DOMAIN call

StepsOf(label) == {k \in 1..Len(call.trace) : call.trace[k].step = label}

\* C22: inside generateSession every pass of a palpation block's loop draws 3
\* times from where the step before stopped, a palpation block makes 5 such
\* passes (15 draws), the two palpation blocks of the session 30, building an
\* ultrasound block draws nothing, and the session built this way is the one
\* generateParticipantRandomization returns.
C22_PalpationDrawsOnly ==
    InLayers =>
        /\ \A k \in 6..Len(call.trace) :
            /\ call.trace[k].from = call.trace[k - 1].to
            /\ call.trace[k].step \in {"palpation ball", "palpation balloon"} =>
                   call.trace[k].to = call.trace[k].from + 3
            /\ call.trace[k].step \in {"ultrasound ball", "ultrasound balloon"} =>
                   call.trace[k].to = call.trace[k].from
            /\ call.trace[k].step \in
                   {"palpation ball", "palpation balloon",
                    "ultrasound ball", "ultrasound balloon"}
        /\ call.pc = "done" =>
            /\ Cardinality(StepsOf("palpation ball")) = 5
            /\ Cardinality(StepsOf("palpation balloon")) = 5
            /\ Cardinality(StepsOf("ultrasound ball")) = 1
            /\ Cardinality(StepsOf("ultrasound balloon")) = 1
            /\ call.random.n = call.trace[5].to + 30
            /\ call.result = generateParticipantRandomization(call.recordId,
                                                              call.randomSeed)

\* a session with palpation first: its first pass drew 3 times, its last
\* block, the ultrasound balloon block, drew nothing
C22_Witness ==
    /\ InLayers
    /\ call.pc = "done"
    /\ call.modalityOrder = <<"palpation", "ultrasound">>
    /\ call.trace[6].step = "palpation ball"
    /\ call.trace[6].to = call.trace[6].from + 3
    /\ call.trace[Len(call.trace)].step = "ultrasound balloon"
    /\ call.trace[Len(call.trace)].to = call.trace[Len(call.trace)].from
    /\ Len(call.trace) = 17

\* ------------------------------------------------------------ C23
InShuffle == sh # Null

\* C23: a call of shuffleArray on an array of length L has called random()
\* (L - 1) - i times when its loop stands at i, the loop runs i from L - 1
\* down to 1, so that the call returns after exactly L - 1 calls (none for
\* L <= 1), and the index j = floor(r * (i + 1)) of each swap lies in 0..i,
\* for the value drawn and for every value r the source could give.
C23_DrawsPerShuffle ==
    InShuffle =>
        /\ sh.pc = "copy" => sh.random.n = 0
        /\ sh.pc = "loop" =>
            /\ sh.i <= Len(sh.input) - 1
            /\ sh.random.n = (Len(sh.input) - 1) - sh.i
            /\ sh.i > 0 =>
                /\ Scale(Draw(sh.random).u, sh.i + 1) \in 0..sh.i
                /\ \A r \in ScriptWords : Scale(r, sh.i + 1) \in 0..sh.i
        /\ sh.pc = "done" =>
            /\ sh.random.n = IF Len(sh.input) <= 1 THEN 0 ELSE Len(sh.input) - 1
            /\ Len(sh.source.rest) - Len(sh.random.rest) = sh.random.n

\* a call on 3 elements returned after 2 draws, the first of them the largest
\* value a source can give
C23_Witness ==
    /\ InShuffle
    /\ sh.pc = "done"
    /\ Len(sh.input) = 3
    /\ sh.random.n = 2
    /\ sh.source.rest[1] = <<65535, 65535>>

\* a call on an empty array returned without a draw
C23_WitnessEmpty ==
    /\ InShuffle
    /\ sh.pc = "done"
    /\ sh.input = <<>>
    /\ sh.random.n = 0

\* ------------------------------------------------------------ C24
\* The order fields of the modality block at position i of session s agree
\* with the order arrays of s
BlockOrdersAgree(s, i) ==
    /\ s.modalities[i].modality = s.modalityOrder[i]
    /\ s.modalities[i].order = i
    /\ s.modalities[i].ballBlock.order = IF s.modelTypeOrder[1] = "ball" THEN 1 ELSE 2
    /\ s.modalities[i].balloonBlock.order = IF s.modelTypeOrder[1] = "ball" THEN 2 ELSE 1

\* C24: every session of a generated participant has exactly 2 modality
\* blocks, one ultrasound and one palpation; the block at position i has the
\* modality modalityOrder[i] and order i; and in both of them ballBlock.order
\* is 1 and balloonBlock.order 2 when modelTypeOrder starts with ball, 2 and 1
\* otherwise.
C24_OrderFieldsAgree ==
    Assigned =>
        \A k \in 1..Len(call.result.sessions) :
            /\ Len(call.result.sessions[k].modalities) = 2
            /\ {call.result.sessions[k].modalities[i].modality : i \in 1..2}
                   = {"ultrasound", "palpation"}
            /\ Range(call.result.sessions[k].modelTypeOrder) = {"ball", "balloon"}
            /\ \A i \in 1..2 : BlockOrdersAgree(call.result.sessions[k], i)

\* a participant with palpation first and the balloon block first
C24_Witness ==
    /\ Assigned
    /\ call.result.sessions[1].modalityOrder = <<"palpation", "ultrasound">>
    /\ call.result.sessions[1].modelTypeOrder = <<"balloon", "ball">>
    /\ call.result.sessions[1].modalities[2].modality = "ultrasound"
    /\ call.result.sessions[1].modalities[2].balloonBlock.order = 1
    /\ call.result.sessions[1].modalities[2].ballBlock.order = 2

\* ------------------------------------------------------------ C25
InStream == call # Null /\ "pc" \in DOMAIN call /\ call.pc = "stream"

\* The low and the high half of seed + n * 0x6D2B79F5 modulo 2^32, computed
\* half by half (0x6D2B = 27947, 0x79F5 = 31221)
AdvancedLow(seed, n) == Word(seed)[2] + n * 31221

AdvancedState(seed, n) ==
    <<(Word(seed)[1] + n * 27947 + AdvancedLow(seed, n) \div Half) % Half,
      AdvancedLow(seed, n) % Half>>

\* C25: after n calls the state of the closure is seed + n * 0x6D2B79F5 modulo
\* 2^32; the value of the n-th call is u / 2^32 for a word u with
\* 0 <= u < 2^32, so that it lies in [0,1); and u is the mixing of the state
\* seed + n * 0x6D2B79F5, a function of the seed modulo 2^32 and of n alone.
C25_StreamArithmetic ==
    InStream =>
        /\ call.random.seed = AdvancedState(call.seed, call.random.n)
        /\ call.random.n > 0 =>
            /\ call.last[1] \in 0..(Half - 1)
            /\ call.last[2] \in 0..(Half - 1)
            /\ Scale(call.last, 1) = 0
            /\ call.last = MulberryMix1(AdvancedState(call.seed, call.random.n)).u

\* the stream of the seed 2^32 - 1 after its state wrapped around several times
C25_Witness ==
    /\ InStream
    /\ call.seed = -1
    /\ call.random.n = MaxDraws
    /\ call.random.seed = AdvancedState(-1, MaxDraws)
    /\ call.last # Null

\* ------------------------------------------------------------ C26
InPressures == call # Null /\ "attempts" \in DOMAIN call

FourFarApart(ps) ==
    /\ Len(ps) = 4
    /\ \A k \in 1..4 : ps[k] \in 1..100
    /\ \A k \in 1..4, m \in 1..4 : k # m => Abs(ps[k] - ps[m]) >= 10

\* C26: a call of generateUniquePressures draws at most 1000 candidates,
\* whatever the source gives, one draw each, and returns 4 values in 1..100
\* that are pairwise at least 10 apart: the 4 candidates accepted, or, when
\* 1000 candidates gave fewer than 4, the values 10, 35, 60, 85 in the order
\* of a shuffle that draws 3 more times.
C26_PressuresTerminate ==
    InPressures =>
        /\ call.attempts <= 1000
        /\ Len(call.pressures) <= 4
        /\ call.pc \in {"pressureLoop", "fallback"} => call.draws = call.attempts
        /\ call.pc = "fallback" => (call.attempts = 1000 /\ Len(call.pressures) < 4)
        /\ call.pc = "returned" =>
            /\ FourFarApart(call.result)
            /\ \/ /\ Len(call.pressures) = 4
                  /\ call.result = call.pressures
                  /\ call.draws = call.attempts
               \/ /\ Len(call.pressures) < 4
                  /\ call.attempts = 1000
                  /\ call.draws = 1003
                  /\ SameMultiset(call.result, <<10, 35, 60, 85>>)

\* 1000 candidates gave 3 values and the fallback came back reordered
C26_Witness ==
    /\ InPressures
    /\ call.pc = "returned"
    /\ call.pressures = <<5, 55, 100>>
    /\ call.attempts = 1000
    /\ call.result = <<85, 10, 35, 60>>

\* 4 candidates were accepted, the last of them at the sixth draw
C26_WitnessAccepted ==
    /\ InPressures
    /\ call.pc = "returned"
    /\ call.result = <<1, 11, 55, 100>>
    /\ call.attempts = 6

\* ------------------------------------------------------------ C27
\* The name a model of a block goes by in the measurements
ModelLabel(blk, m) == IF blk.modelType = "ball" THEN m.name ELSE PressureName(m)

\* The models of blk with the id modelId
ModelsWithId(blk, modelId) ==
    {k \in 1..Len(blk.models) : blk.models[k].id = modelId}

BlockModelsAgree(s, blk) ==
    /\ \A k \in 1..Len(blk.models) : blk.models[k].order = k
    /\ MapId(blk.models) = AssignedOrder(s, blk)
    /\ \A q \in 1..Len(blk.measurements) :
        /\ Cardinality(ModelsWithId(blk, blk.measurements[q].modelId)) = 1
        /\ \A k \in ModelsWithId(blk, blk.measurements[q].modelId) :
               blk.measurements[q].modelName = ModelLabel(blk, blk.models[k])

\* C27: in every session of a generated participant and every model-type
\* block, the model at position k (from 1) has order k, the ids of the models
\* in their order are the session's ballSphereOrder (ball) or
\* balloonPointOrder (balloon), and the modelName of every measurement is the
\* name of the one model of the block that has its modelId.
C27_ModelsAgree ==
    Assigned =>
        \A k \in 1..Len(call.result.sessions) :
            \A i \in 1..Len(call.result.sessions[k].modalities) :
                \A blk \in ModelBlocks(call.result.sessions[k].modalities[i]) :
                    BlockModelsAgree(call.result.sessions[k], blk)

\* a palpation balloon block whose first measurement is not of the first model
C27_Witness ==
    /\ Assigned
    /\ \E i \in 1..2 :
        /\ call.result.sessions[1].modalities[i].modality = "palpation"
        /\ call.result.sessions[1].modalities[i].balloonBlock.measurements[1].modelId
               # call.result.sessions[1].modalities[i].balloonBlock.models[1].id
        /\ call.result.sessions[1].modalities[i].balloonBlock.measurements[1].modelName
               # PressureName(call.result.sessions[1].modalities[i].balloonBlock.models[1])

InRace == page # Null /\ "sinceClear" \in DOMAIN page

AllSettled == \A k \in 1..Len(io) : io[k].pc \in {"returned", "threw"}

\* C28: once every store started has settled, succeeded, failed or timed
\* out, and no clear was started, the local store holds the schedule handed
\* to store last: a store that settles late does not overwrite the local copy
\* of a later one.
C28_LocalHoldsLatest ==
    (InRace /\ io # <<>> /\ AllSettled /\ ~page.clearing /\ ~page.cleared)
        => store.local = JSONStringify(page.last)

\* C29: after a clear, once every store started before it has settled and no
\* write is left with the client, the remote store, the local store and the
\* page hold no schedule.
C29_ClearedStaysCleared ==
    (InRace /\ page.cleared /\ page.sinceClear = 0 /\ AllSettled
        /\ store.inflight = <<>>)
        => (store.remote = Null /\ store.local = Null /\ data = Null)

InCap == lastOp # Null /\ "n" \in DOMAIN lastOp

\* C30: in every state reached through the form and the buttons the schedule
\* holds at most 50 participants.
C30_AtMostFifty ==
    (InCap /\ data # Null) => Len(data.participants) <= 50

\* Add was pressed at 49 participants: the schedule holds 50 and the button
\* is disabled
C30_Witness ==
    /\ InCap /\ data # Null
    /\ lastOp.op = "add"
    /\ Len(data.participants) = 50
    /\ AddDisabled(data)

\* Removal brought the count down to 0
C30_WitnessEmpty ==
    /\ InCap /\ data # Null
    /\ lastOp.op = "remove"
    /\ Len(data.participants) = 0

====
